---------------------------- MODULE Spec2Model ----------------------------
(***************************************************************************)
(* A model of the ue3-tools package codec: the package header reader and   *)
(* writer (upkreader.rs), full-name resolution over the import/export      *)
(* tables (upkreader.rs) and the offline script patch applier              *)
(* (scriptpatcher.rs, with the Script extraction of scriptdisasm.rs).      *)
(*                                                                         *)
(* Bytes are the integers 0..255.  An i32 is an integer in                 *)
(* -2^31 .. 2^31-1; a u32 is kept as two 16-bit limbs [hi, lo] because its *)
(* upper half does not fit the checker's integers.  A usize is an integer  *)
(* modulo USIZE (a scaled-down 2^64: every length of the model is far      *)
(* below it, so the wrap-around cases are the same).                       *)
(***************************************************************************)
EXTENDS Integers, Sequences, FiniteSets, TLC

VARIABLES
    mode,        \* which part of the program this behaviour exercises
    h_pc,        \* header codec: "start", "read", "written"
    h_in,        \* header codec: the bytes given to UpkHeader::read
    h_res,       \* header codec: result of UpkHeader::read
    h_out,       \* header codec: the bytes UpkHeader::write produced
    pak,         \* the parsed package: name, export and import tables
    n_pc,        \* name resolution: "call", "walk", "done"
    n_call,      \* name resolution: the function called and its index
    n_linker,    \* name resolution: the loop's linker_index
    n_result,    \* name resolution: the loop's result string
    n_steps,     \* name resolution: loop iterations executed so far
    n_ret,       \* name resolution: the string returned
    p_pc,        \* patch applier: "loop", "done", "panic"
    p_raw,       \* patch applier: upk_raw, the bytes of the package file
    p_hdr,       \* patch applier: the header fields the applier reads
    p_patches,   \* patch applier: patch.script_patches
    p_i,         \* patch applier: position in the loop over the patches
    p_serial_pos,  \* patch applier: serial_pos, where the table fields lie
    p_repl,      \* patch applier: replacements, export index -> new blob
    p_log,       \* patch applier: per patch, the line it printed
    p_out,       \* patch applier: the bytes returned
    overflow_checks, \* the build: usize overflow panics (TRUE) or wraps
    s_pc,        \* string codec: "start", "written", "read"
    s_str,       \* string codec: the string given to the writer
    s_reader,    \* string codec: the reader that reads the bytes back
    s_bytes,     \* string codec: the writer's bytes and what follows them
    s_res,       \* string codec: the reader's result
    d_pc,        \* loader: "open", "compressed", "decoded", "loaded", ...
    d_file,      \* loader: the bytes of the file at the path
    d_orig,      \* loader: the bytes the file held when the load began
    d_hdr,       \* loader: the header read from a compressed file
    d_dec,       \* loader: dec_data, one buffer per chunk
    d_passes,    \* loader: decompression passes done
    d_res,       \* loader: the image and header returned
    r_pc,        \* property walk: "walk", "done", "panic"
    r_blob,      \* property walk: the export blob under the cursor
    r_ver,       \* property walk: the package version
    r_checks,    \* property walk: the build, as overflow_checks
    r_pos,       \* property walk: the cursor's position
    r_from,      \* property walk: where the last parse_property began
    r_props,     \* property walk: props, the properties pushed so far
    a_pc,        \* disassembler: "loop", "done"
    a_script,    \* disassembler: the Script bytes
    a_pos,       \* disassembler: the cursor's position
    a_out,       \* disassembler: out, the (offset, statement) pairs
    e_pc,        \* script extraction: "start", "done"
    e_blob,      \* script extraction: the export blob
    e_res,       \* script extraction: the Option returned
    c_pc,        \* assembler: "lines", "fixups", "done"
    c_text,      \* assembler: the lines of the text given to compile_text
    c_k,         \* assembler: lines compiled so far
    c_labels,    \* assembler: labels, label name -> offset
    c_fixups,    \* assembler: fixups, the (slot, label) pairs pending
    c_out,       \* assembler: out, the bytes emitted
    q_names,     \* two loads: the directory, file name -> file (0: none)
    q_files,     \* two loads: the bytes of each file, linked or not
    q_orig,      \* two loads: the bytes each package file held at first
    q_proc,      \* two loads: per load, its position, handles and result
    f_fname,     \* name rendering: the FName rendered
    f_out,       \* name rendering: per renderer, the text it returned
    b_pc,        \* patch artifact: "start", "compressed", "loaded"
    b_patch,     \* patch artifact: the LinkerPatchData
    b_bin,       \* patch artifact: the bytes compress_patch returned
    b_res        \* patch artifact: the result of load_patch_bin

hvars == <<h_pc, h_in, h_res, h_out>>

nvars == <<n_pc, n_call, n_linker, n_result, n_steps, n_ret>>

pvars == <<p_pc, p_raw, p_hdr, p_patches, p_i, p_serial_pos, p_repl, p_log,
           p_out, overflow_checks>>

svars == <<s_pc, s_str, s_reader, s_bytes, s_res>>

\* The variables of the parts added after the patch applier.
dvars == <<d_pc, d_file, d_orig, d_hdr, d_dec, d_passes, d_res>>

rvars == <<r_pc, r_blob, r_ver, r_checks, r_pos, r_from, r_props>>

avars == <<a_pc, a_script, a_pos, a_out>>

evars == <<e_pc, e_blob, e_res>>

cvars == <<c_pc, c_text, c_k, c_labels, c_fixups, c_out>>

\* The variables of the parts added after the script extraction.
qvars == <<q_names, q_files, q_orig, q_proc>>

fvars == <<f_fname, f_out>>

bvars == <<b_pc, b_patch, b_bin, b_res>>

zvars == <<cvars, qvars, fvars, bvars>>

yvars == <<rvars, avars, evars, zvars>>

xvars == <<svars, dvars, yvars>>

vars == <<mode, hvars, pak, nvars, pvars, xvars>>

StringsIdle ==
    /\ s_pc = "idle"
    /\ s_str = <<>>
    /\ s_reader = "none"
    /\ s_bytes = <<>>
    /\ s_res = [kind |-> "None"]

DecompIdle ==
    /\ d_pc = "idle"
    /\ d_file = <<>>
    /\ d_orig = <<>>
    /\ d_hdr = [kind |-> "None"]
    /\ d_dec = <<>>
    /\ d_passes = 0
    /\ d_res = [kind |-> "None"]

PropsIdle ==
    /\ r_pc = "idle"
    /\ r_blob = <<>>
    /\ r_ver = 0
    /\ r_checks = TRUE
    /\ r_pos = 0
    /\ r_from = 0
    /\ r_props = <<>>

DisasmIdle ==
    /\ a_pc = "idle"
    /\ a_script = <<>>
    /\ a_pos = 0
    /\ a_out = <<>>

ExtractIdle ==
    /\ e_pc = "idle"
    /\ e_blob = <<>>
    /\ e_res = [some |-> FALSE]

CompileIdle ==
    /\ c_pc = "idle"
    /\ c_text = <<>>
    /\ c_k = 0
    /\ c_labels = <<>>
    /\ c_fixups = <<>>
    /\ c_out = <<>>

LoadsIdle ==
    /\ q_names = <<>>
    /\ q_files = <<>>
    /\ q_orig = <<>>
    /\ q_proc = <<>>

RenderIdle ==
    /\ f_fname = [name_index |-> 0, name_instance |-> 0]
    /\ f_out = <<>>

ArtifactIdle ==
    /\ b_pc = "idle"
    /\ b_patch = <<>>
    /\ b_bin = <<>>
    /\ b_res = [kind |-> "None"]

\* The parts added last, idle.
WIdle == RenderIdle /\ ArtifactIdle

ZIdle == CompileIdle /\ LoadsIdle /\ WIdle

YIdle == PropsIdle /\ DisasmIdle /\ ExtractIdle /\ ZIdle

XIdle == StringsIdle /\ DecompIdle /\ YIdle

PatchIdle ==
    /\ p_pc = "idle"
    /\ p_raw = <<>>
    /\ p_hdr = [p_ver |-> 0, export_offset |-> 0, export_count |-> 0]
    /\ p_patches = <<>>
    /\ p_i = 0
    /\ p_serial_pos = <<>>
    /\ p_repl = <<>>
    /\ p_log = <<>>
    /\ p_out = <<>>
    /\ overflow_checks = TRUE

(***************************************************************************)
(* Binary primitives (byteorder's little-endian readers and writers).      *)
(***************************************************************************)

\* Concatenation of a sequence of sequences.
RECURSIVE Flatten(_)
Flatten(ss) == IF ss = <<>> THEN <<>> ELSE Head(ss) \o Flatten(Tail(ss))

ReadU16(s, p) == s[p + 1] + 256 * s[p + 2]

ReadI16(s, p) ==
    LET u == ReadU16(s, p) IN IF u >= 32768 THEN u - 65536 ELSE u

ReadU32(s, p) == [lo |-> ReadU16(s, p), hi |-> ReadU16(s, p + 2)]

ReadI32(s, p) ==
    LET b3 == s[p + 4]
        top == IF b3 >= 128 THEN b3 - 256 ELSE b3
    IN  s[p + 1] + 256 * s[p + 2] + 65536 * s[p + 3] + 16777216 * top

WriteU16(v) == <<v % 256, (v \div 256) % 256>>

WriteI16(v) == WriteU16(IF v < 0 THEN v + 65536 ELSE v)

WriteU32(v) == WriteU16(v.lo) \o WriteU16(v.hi)

WriteI32(v) ==
    LET w == IF v < 0 THEN v + 2147483647 + 1 ELSE v
        b3 == w \div 16777216
    IN  <<w % 256, (w \div 256) % 256, (w \div 65536) % 256,
          IF v < 0 THEN b3 + 128 ELSE b3>>

\* PACKAGE_TAG = 0x9E2A83C1
PACKAGE_TAG == [hi |-> 40490, lo |-> 33729]

\* `n as usize` for a u32 count that the model can iterate over.
U32Small(v) == v.hi = 0 /\ v.lo < 256

(***************************************************************************)
(* CompressionMethod (upkdecompress.rs): try_from and `as u32`.            *)
(***************************************************************************)

CompressionTryFrom(v) ==
    IF v.hi # 0 THEN "invalid"
    ELSE CASE v.lo = 0 -> "None"
           [] v.lo = 1 -> "Zlib"
           [] v.lo = 2 -> "Lzo"
           [] v.lo = 4 -> "Lzx"
           [] OTHER -> "invalid"

CompressionAsU32(m) ==
    CASE m = "None" -> [hi |-> 0, lo |-> 0]
      [] m = "Zlib" -> [hi |-> 0, lo |-> 1]
      [] m = "Lzo" -> [hi |-> 0, lo |-> 2]
      [] m = "Lzx" -> [hi |-> 0, lo |-> 4]

(***************************************************************************)
(* UpkHeader::read.  The result is Ok (with the header and the number of   *)
(* bytes consumed), Err (an io::Error kind) or Panic.                      *)
(***************************************************************************)

HErr(kind) == [kind |-> "Err", err |-> kind]

HPanic(why) == [kind |-> "Panic", err |-> why]

\* let mut rfl = path_len; if path_len < 0 { rfl = path_len * -2; }
PathBytes(path_len) == IF path_len < 0 THEN path_len * (-2) ELSE path_len

\* Bytes of the version-gated block read after depends_offset.
GuidBlockLen(p_ver) ==
    (IF p_ver >= 623 THEN 12 ELSE 0) + (IF p_ver >= 584 THEN 4 ELSE 0)

\* Bytes of the version-gated block read after package_source.
TailBlockLen(p_ver) ==
    (IF p_ver >= 516 THEN 4 ELSE 0) + (IF p_ver >= 767 THEN 4 ELSE 0)

ReadGens(s, p, n) ==
    [i \in 1..n |->
        [export_count |-> ReadI32(s, p + 12 * (i - 1)),
         name_count |-> ReadI32(s, p + 12 * (i - 1) + 4),
         net_obj_count |-> ReadI32(s, p + 12 * (i - 1) + 8)]]

ReadChunks(s, p, n) ==
    [i \in 1..n |->
        [decompressed_offset |-> ReadU32(s, p + 16 * (i - 1)),
         decompressed_size |-> ReadU32(s, p + 16 * (i - 1) + 4),
         compressed_offset |-> ReadU32(s, p + 16 * (i - 1) + 8),
         compressed_size |-> ReadU32(s, p + 16 * (i - 1) + 12)]]

\* The part of UpkHeader::read after the generation list: engine and cooker
\* versions, compression method, chunk descriptors, package source and the
\* fields gated at 516 and 767.  `h` holds the fields read so far, `p` is the
\* reader's position.
UpkHeaderReadTail(s, h, p) ==
    IF p + 16 > Len(s) THEN HErr("UnexpectedEof")
    ELSE
    LET method == CompressionTryFrom(ReadU32(s, p + 8))
        cnt == ReadU32(s, p + 12)
    IN  IF method = "invalid" THEN HPanic("unwrap on Err")
        ELSE IF ~U32Small(cnt) THEN HErr("UnexpectedEof")
        ELSE
        LET c0 == p + 16
            q == c0 + 16 * cnt.lo
            fin == q + 4 + TailBlockLen(h.p_ver)
        IN  IF fin > Len(s) THEN HErr("UnexpectedEof")
            ELSE
            [kind |-> "Ok",
             consumed |-> fin,
             hdr |->
               [sign |-> h.sign, p_ver |-> h.p_ver, l_ver |-> h.l_ver,
                header_size |-> h.header_size, path_len |-> h.path_len,
                path |-> h.path, pak_flags |-> h.pak_flags,
                name_count |-> h.name_count, name_offset |-> h.name_offset,
                export_count |-> h.export_count,
                export_offset |-> h.export_offset,
                import_count |-> h.import_count,
                import_offset |-> h.import_offset,
                depends_offset |-> h.depends_offset,
                import_export_guids_offset |-> h.import_export_guids_offset,
                import_guids_count |-> h.import_guids_count,
                export_guids_count |-> h.export_guids_count,
                thumbnail_table_offest |-> h.thumbnail_table_offest,
                guid |-> h.guid, gen_count |-> h.gen_count, gens |-> h.gens,
                engine_ver |-> ReadI32(s, p),
                cooker_ver |-> ReadI32(s, p + 4),
                compression_method |-> method,
                compressed_chunks_count |-> cnt,
                compressed_chunks |-> ReadChunks(s, c0, cnt.lo),
                package_source |-> ReadI32(s, q),
                additional_packages |->
                    IF h.p_ver >= 516 THEN ReadI32(s, q + 4) ELSE -1,
                texture_allocs |->
                    IF h.p_ver >= 767
                    THEN ReadI32(s, q + 4 + (IF h.p_ver >= 516 THEN 4 ELSE 0))
                    ELSE -1]]

\* The part of UpkHeader::read from the GUID-table fields to the generation
\* list.  `h` holds the fields read so far, `p` is the reader's position.
UpkHeaderReadMid(s, h, p) ==
    LET g0 == p + GuidBlockLen(h.p_ver)
        t0 == p + (IF h.p_ver >= 623 THEN 12 ELSE 0)
    IN  IF g0 + 20 > Len(s) THEN HErr("UnexpectedEof")
        ELSE
        LET gen_count == ReadI32(s, g0 + 16)
        IN  \* Vec::with_capacity(gen_count as usize) of a negative count
            IF gen_count < 0 THEN HPanic("capacity overflow")
            ELSE IF g0 + 20 + 12 * gen_count > Len(s)
            THEN HErr("UnexpectedEof")
            ELSE
            UpkHeaderReadTail(s,
                [sign |-> h.sign, p_ver |-> h.p_ver, l_ver |-> h.l_ver,
                 header_size |-> h.header_size, path_len |-> h.path_len,
                 path |-> h.path, pak_flags |-> h.pak_flags,
                 name_count |-> h.name_count, name_offset |-> h.name_offset,
                 export_count |-> h.export_count,
                 export_offset |-> h.export_offset,
                 import_count |-> h.import_count,
                 import_offset |-> h.import_offset,
                 depends_offset |-> h.depends_offset,
                 import_export_guids_offset |->
                     IF h.p_ver >= 623 THEN ReadI32(s, p) ELSE -1,
                 import_guids_count |->
                     IF h.p_ver >= 623 THEN ReadU32(s, p + 4)
                     ELSE [hi |-> 0, lo |-> 0],
                 export_guids_count |->
                     IF h.p_ver >= 623 THEN ReadU32(s, p + 8)
                     ELSE [hi |-> 0, lo |-> 0],
                 thumbnail_table_offest |->
                     IF h.p_ver >= 584 THEN ReadU32(s, t0)
                     ELSE [hi |-> 0, lo |-> 0],
                 guid |-> [i \in 1..4 |-> ReadI32(s, g0 + 4 * (i - 1))],
                 gen_count |-> gen_count,
                 gens |-> ReadGens(s, g0 + 20, gen_count)],
                g0 + 20 + 12 * gen_count)

UpkHeaderRead(s) ==
    IF Len(s) < 4 THEN HErr("UnexpectedEof")
    ELSE IF ReadU32(s, 0) # PACKAGE_TAG THEN HErr("InvalidData")
    ELSE IF Len(s) < 16 THEN HErr("UnexpectedEof")
    ELSE
    LET path_len == ReadI32(s, 12)
        rfl == PathBytes(path_len)
        f0 == 16 + rfl
    IN  IF f0 + 32 > Len(s) THEN HErr("UnexpectedEof")
        ELSE
        LET name_count == ReadI32(s, f0 + 4)
            export_count == ReadI32(s, f0 + 12)
            import_count == ReadI32(s, f0 + 20)
        IN  IF import_count <= 0 \/ name_count <= 0 \/ export_count <= 0
            THEN HErr("InvalidData")
            ELSE
            UpkHeaderReadMid(s,
                [sign |-> ReadU32(s, 0),
                 p_ver |-> ReadI16(s, 4),
                 l_ver |-> ReadI16(s, 6),
                 header_size |-> ReadI32(s, 8),
                 path_len |-> path_len,
                 path |-> SubSeq(s, 17, 16 + rfl),
                 pak_flags |-> ReadU32(s, f0),
                 name_count |-> name_count,
                 name_offset |-> ReadI32(s, f0 + 8),
                 export_count |-> export_count,
                 export_offset |-> ReadI32(s, f0 + 16),
                 import_count |-> import_count,
                 import_offset |-> ReadI32(s, f0 + 24),
                 depends_offset |-> ReadI32(s, f0 + 28)],
                f0 + 32)

(***************************************************************************)
(* UpkHeader::write: the bytes written for header h.                       *)
(***************************************************************************)

WriteGens(gens) ==
    Flatten([i \in 1..Len(gens) |->
        WriteI32(gens[i].export_count) \o WriteI32(gens[i].name_count)
            \o WriteI32(gens[i].net_obj_count)])

WriteChunks(cs) ==
    Flatten([i \in 1..Len(cs) |->
        WriteU32(cs[i].decompressed_offset) \o WriteU32(cs[i].decompressed_size)
            \o WriteU32(cs[i].compressed_offset)
            \o WriteU32(cs[i].compressed_size)])

WriteGuidBlock(h) ==
    (IF h.p_ver >= 623
     THEN WriteI32(h.import_export_guids_offset)
            \o WriteU32(h.import_guids_count) \o WriteU32(h.export_guids_count)
     ELSE <<>>)
    \o (IF h.p_ver >= 584 THEN WriteU32(h.thumbnail_table_offest) ELSE <<>>)

WriteTailBlock(h) ==
    (IF h.p_ver >= 516 THEN WriteI32(h.additional_packages) ELSE <<>>)
    \o (IF h.p_ver >= 767 THEN WriteI32(h.texture_allocs) ELSE <<>>)

\* A writer that emits the chunk descriptors only for a compressed package.
WriteChunkListIfCompressed(h) ==
    IF h.compression_method # "None"
    THEN WriteChunks(h.compressed_chunks)
    ELSE <<>>

WriteChunkList(h) ==
    IF h.compressed_chunks_count # [hi |-> 0, lo |-> 0]
    THEN WriteChunks(h.compressed_chunks)
    ELSE <<>>

WriteGenList(h) == WriteI32(Len(h.gens)) \o WriteGens(h.gens)

UpkHeaderWrite(h) ==
    WriteU32(h.sign) \o WriteI16(h.p_ver) \o WriteI16(h.l_ver)
    \o WriteI32(h.header_size) \o WriteI32(h.path_len) \o h.path
    \o WriteU32(h.pak_flags)
    \o WriteI32(h.name_count) \o WriteI32(h.name_offset)
    \o WriteI32(h.export_count) \o WriteI32(h.export_offset)
    \o WriteI32(h.import_count) \o WriteI32(h.import_offset)
    \o WriteI32(h.depends_offset)
    \o WriteGuidBlock(h)
    \o Flatten([i \in 1..4 |-> WriteI32(h.guid[i])])
    \o WriteGenList(h)
    \o WriteI32(h.engine_ver) \o WriteI32(h.cooker_ver)
    \o WriteU32(CompressionAsU32(h.compression_method))
    \o WriteU32(h.compressed_chunks_count)
    \o WriteChunkList(h)
    \o WriteI32(h.package_source)
    \o WriteTailBlock(h)

(***************************************************************************)
(* Text.  A string is a sequence of one-character strings.                 *)
(***************************************************************************)

S_Package == <<"P", "a", "c", "k", "a", "g", "e">>

S_Class == <<"C", "l", "a", "s", "s">>

S_Invalid == <<"<", "i", "n", "v", "a", "l", "i", "d", ">">>

Digit(d) == <<"0", "1", "2", "3", "4", "5", "6", "7", "8", "9">>[d + 1]

\* format!("{}", n) for n >= 0
RECURSIVE Decimal(_)
Decimal(n) == IF n < 10 THEN <<Digit(n)>>
              ELSE Decimal(n \div 10) \o <<Digit(n % 10)>>

(***************************************************************************)
(* UPKPak: the tables and the readers over them.  Vec::get(k as usize)     *)
(* finds entry k (0-based) when 0 <= k < len; a negative k casts to a      *)
(* usize beyond every table.                                               *)
(***************************************************************************)

NoPak == [name_table |-> <<>>, export_table |-> <<>>, import_table |-> <<>>]

Has(table, k) == 0 <= k /\ k < Len(table)

Get(table, k) == table[k + 1]

fname_to_string(pk, fname) ==
    IF Has(pk.name_table, fname.name_index)
    THEN IF fname.name_instance > 0
         THEN Get(pk.name_table, fname.name_index) \o <<"_">>
                \o Decimal(fname.name_instance - 1)
         ELSE Get(pk.name_table, fname.name_index)
    ELSE S_Invalid

get_import_class_name(pk, import_index) ==
    IF Has(pk.import_table, -import_index - 1)
    THEN fname_to_string(pk, Get(pk.import_table, -import_index - 1).class_name)
    ELSE S_Class

get_export_class_name(pk, export_index) ==
    IF Has(pk.export_table, export_index - 1)
    THEN fname_to_string(pk, Get(pk.export_table, export_index - 1).object_name)
    ELSE S_Class

get_class_name(pk, class_index) ==
    IF class_index > 0
    THEN IF Has(pk.export_table, class_index - 1)
         THEN fname_to_string(pk,
                  Get(pk.export_table, class_index - 1).object_name)
         ELSE S_Class
    ELSE IF class_index < 0
    THEN IF Has(pk.import_table, -class_index - 1)
         THEN fname_to_string(pk,
                  Get(pk.import_table, -class_index - 1).object_name)
         ELSE S_Class
    ELSE S_Class

is_package_outer(pk, outer_index) ==
    IF outer_index = 0 THEN TRUE
    ELSE IF outer_index > 0
    THEN get_export_class_name(pk, outer_index) = S_Package
    ELSE get_import_class_name(pk, outer_index) = S_Package

\* format!(":{}", result) or format!(".{}", result), then the object name
\* in front.
PrependStep(name, is_subobject, result) ==
    IF result = <<>> THEN name
    ELSE name \o (IF is_subobject THEN <<":">> ELSE <<".">>) \o result

\* One iteration of the loop of get_export_path_name at linker_index li with
\* the path built so far; "brk" when the loop breaks.
ExportPathIter(pk, li, result) ==
    IF Has(pk.export_table, li - 1)
    THEN LET export == Get(pk.export_table, li - 1)
             is_subobject == /\ get_class_name(pk, li) # S_Package
                             /\ is_package_outer(pk, export.outer_index)
         IN  [brk |-> FALSE,
              result |-> PrependStep(fname_to_string(pk, export.object_name),
                                     is_subobject, result),
              linker |-> export.outer_index]
    ELSE [brk |-> TRUE, result |-> result, linker |-> li]

\* One iteration of the loop of get_import_path_name.
ImportPathIter(pk, li, result) ==
    IF li >= 0
    THEN IF Has(pk.import_table, li)
         THEN LET import == Get(pk.import_table, li)
                  is_subobj ==
                      /\ result # <<>>
                      /\ fname_to_string(pk, import.class_name) # S_Package
                      /\ is_package_outer(pk, import.outer_index)
              IN  [brk |-> FALSE,
                   result |->
                       PrependStep(fname_to_string(pk, import.object_name),
                                   is_subobj, result),
                   linker |-> import.outer_index]
         ELSE [brk |-> TRUE, result |-> result, linker |-> li]
    ELSE IF Has(pk.export_table, -li - 1)
         THEN LET export == Get(pk.export_table, -li - 1)
                  is_subobj ==
                      /\ result # <<>>
                      /\ get_class_name(pk, -li) # S_Package
                      /\ is_package_outer(pk, export.outer_index)
              IN  [brk |-> FALSE,
                   result |->
                       PrependStep(fname_to_string(pk, export.object_name),
                                   is_subobj, result),
                   linker |-> export.outer_index]
         ELSE [brk |-> TRUE, result |-> result, linker |-> li]

ExportFns == {"get_export_path_name", "get_export_full_name"}

ImportFns == {"get_import_path_name", "get_import_full_name"}

PathIter(pk, fn, li, result) ==
    IF fn \in ExportFns THEN ExportPathIter(pk, li, result)
    ELSE ImportPathIter(pk, li, result)

\* let mut linker_index = ...: the loop variable's first value.
FirstLinker(fn, index) == IF fn \in ExportFns THEN index ELSE -index - 1

\* get_export_full_name / get_import_full_name around the path: the class
\* name and a space in front.
FullNameOf(pk, fn, index, path) ==
    CASE fn = "get_export_full_name" ->
           get_class_name(pk, Get(pk.export_table, index - 1).class_index)
             \o <<" ">> \o path
      [] fn = "get_import_full_name" ->
           fname_to_string(pk, Get(pk.import_table, -index - 1).class_name)
             \o <<" ">> \o path
      [] OTHER -> path

\* The full-name functions return "<invalid>" at once for an index outside
\* their table.
FullNameInvalid(pk, fn, index) ==
    \/ fn = "get_export_full_name" /\ ~Has(pk.export_table, index - 1)
    \/ fn = "get_import_full_name" /\ ~Has(pk.import_table, -index - 1)


(***************************************************************************)
(* Full-name resolution as a state machine: a call, then one step per      *)
(* iteration of the while loop, then the return.                           *)
(***************************************************************************)

MaxExports == 2

\* Loop iterations the model follows before it stops looking.
MaxWalk == 6

S_Core == <<"C", "o", "r", "e">>

NameTable == <<S_Package, <<"A">>, <<"B">>, <<"T", "e", "x">>, S_Core, S_Class>>

FName(i) == [name_index |-> i, name_instance |-> 0]

\* Import entry 0 is the class object Package, import entry 1 the imported
\* package Core.
ImportEntry(k, outer) ==
    IF k = 1
    THEN [class_package |-> FName(4), class_name |-> FName(5),
          outer_index |-> outer, object_name |-> FName(0)]
    ELSE [class_package |-> FName(4), class_name |-> FName(0),
          outer_index |-> outer, object_name |-> FName(4)]

NumImports == Len(<<ImportEntry(1, 0), ImportEntry(2, 0)>>)

ExportEntry(class, outer, name) ==
    [class_index |-> class, super_index |-> 0, outer_index |-> outer,
     object_name |-> FName(name), archetype |-> 0,
     serial_size |-> 0, serial_offset |-> 0]

\* The packages name resolution is run on: every outer_index of every entry
\* ranges over all linker indices of the tables (and so over cycles); the
\* first export may be named Package and may be of class Package (import
\* -1) or of class Core (import -2).
NamePaks ==
    UNION {
      {[name_table |-> NameTable,
        export_table |->
            [i \in 1..ne |->
                ExportEntry(IF i = 1 THEN c1 ELSE -2, eo[i],
                            IF i = 1 THEN n1 ELSE 1 + (i % 2))],
        import_table |-> [k \in 1..NumImports |-> ImportEntry(k, io[k])]] :
         eo \in [1..ne -> (-NumImports)..ne],
         io \in [1..NumImports -> (-NumImports)..ne],
         c1 \in {-1, -2}, n1 \in {0, 1}} :
      ne \in 1..MaxExports}

NameCalls(pk) ==
    {[fn |-> f, index |-> i] :
        f \in ExportFns, i \in 1..(Len(pk.export_table) + 1)}
    \cup {[fn |-> f, index |-> -i] :
        f \in ImportFns, i \in 1..(Len(pk.import_table) + 1)}

NamesIdle ==
    /\ n_pc = "idle"
    /\ n_call = [fn |-> "none", index |-> 0]
    /\ n_linker = 0
    /\ n_result = <<>>
    /\ n_steps = 0
    /\ n_ret = <<>>

NamesInit ==
    /\ mode = "names"
    /\ pak \in NamePaks
    /\ n_call \in NameCalls(pak)
    /\ n_pc = "call"
    /\ n_linker = 0
    /\ n_result = <<>>
    /\ n_steps = 0
    /\ n_ret = <<>>
    /\ h_pc = "idle"
    /\ h_in = <<>>
    /\ h_res = [kind |-> "None"]
    /\ h_out = <<>>
    /\ PatchIdle
    /\ XIdle

\* Entry of get_*_path_name / get_*_full_name.
NameCall ==
    /\ mode = "names"
    /\ n_pc = "call"
    /\ IF FullNameInvalid(pak, n_call.fn, n_call.index)
       THEN /\ n_ret' = S_Invalid
            /\ n_pc' = "done"
            /\ UNCHANGED n_linker
       ELSE /\ n_linker' = FirstLinker(n_call.fn, n_call.index)
            /\ n_pc' = "walk"
            /\ UNCHANGED n_ret
    /\ UNCHANGED <<mode, pak, n_call, n_result, n_steps, hvars, pvars, xvars>>

\* One iteration of `while linker_index != 0` that does not break.
PathStep ==
    /\ mode = "names"
    /\ n_pc = "walk"
    /\ n_linker # 0
    /\ n_steps < MaxWalk
    /\ LET it == PathIter(pak, n_call.fn, n_linker, n_result)
       IN  /\ ~it.brk
           /\ n_result' = it.result
           /\ n_linker' = it.linker
    /\ n_steps' = n_steps + 1
    /\ UNCHANGED <<mode, pak, n_call, n_pc, n_ret, hvars, pvars, xvars>>

\* The loop ends (linker_index = 0, or break) and the function returns.
PathReturn ==
    /\ mode = "names"
    /\ n_pc = "walk"
    /\ \/ n_linker = 0
       \/ PathIter(pak, n_call.fn, n_linker, n_result).brk
    /\ n_ret' = FullNameOf(pak, n_call.fn, n_call.index, n_result)
    /\ n_pc' = "done"
    /\ UNCHANGED <<mode, pak, n_call, n_linker, n_result, n_steps, hvars, pvars, xvars>>

NamesNext == NameCall \/ PathStep \/ PathReturn

SpecNames == NamesInit /\ [][NamesNext]_vars


(***************************************************************************)
(* The linker-index convention of the data model, used to state the claims *)
(* about name resolution: 0 is none, i > 0 is export entry i-1, i < 0 is   *)
(* import entry -i-1.                                                      *)
(***************************************************************************)

TableSize(pk) == Len(pk.export_table) + Len(pk.import_table)

RefExists(pk, i) ==
    \/ i > 0 /\ i <= Len(pk.export_table)
    \/ i < 0 /\ -i <= Len(pk.import_table)

RefEntry(pk, i) == IF i > 0 THEN pk.export_table[i] ELSE pk.import_table[-i]

RefOuter(pk, i) == RefEntry(pk, i).outer_index

RefName(pk, i) == fname_to_string(pk, RefEntry(pk, i).object_name)

\* The class of an object: for an export the name of the object its
\* class_index refers to, for an import its class_name.
RefClass(pk, i) ==
    IF i > 0
    THEN LET c == pk.export_table[i].class_index
         IN  IF c # 0 /\ RefExists(pk, c) THEN RefName(pk, c) ELSE S_Class
    ELSE fname_to_string(pk, pk.import_table[-i].class_name)

\* The outer chain from i reaches 0 through existing entries within `fuel`
\* links.
RECURSIVE ChainReachesRoot(_, _, _)
ChainReachesRoot(pk, i, fuel) ==
    IF i = 0 THEN TRUE
    ELSE IF fuel = 0 \/ ~RefExists(pk, i) THEN FALSE
    ELSE ChainReachesRoot(pk, RefOuter(pk, i), fuel - 1)

Acyclic(pk, i) == RefExists(pk, i) /\ ChainReachesRoot(pk, i, TableSize(pk))

\* The object names along the outer chain of i, outermost first.
RECURSIVE ChainNames(_, _, _)
ChainNames(pk, i, fuel) ==
    IF i = 0 \/ fuel = 0 THEN <<>>
    ELSE ChainNames(pk, RefOuter(pk, i), fuel - 1) \o RefName(pk, i)

IsSeparator(c) == c \in {".", ":"}

NotSeparator(c) == ~IsSeparator(c)

StripSeps(s) == SelectSeq(s, NotSeparator)

OuterIsPackage(pk, o) ==
    IF o = 0 THEN TRUE
    ELSE RefExists(pk, o) /\ RefClass(pk, o) = S_Package

\* The separator the rule puts between the object at linker index i and the
\* step nested in it.
ExpectedSep(pk, i) ==
    IF RefClass(pk, i) # S_Package /\ OuterIsPackage(pk, RefOuter(pk, i))
    THEN ":" ELSE "."

\* C7: for a linker index that refers to an existing entry and whose outer
\* chain has no cycle, name resolution terminates after following at most
\* len(export_table) + len(import_table) outer links.
C7_ResolutionTerminates ==
    (n_pc \in {"walk", "done"} /\ Acyclic(pak, n_call.index))
        => n_steps <= TableSize(pak)

\* The outer chain from export i runs through `fuel` + 1 export entries:
\* an export that is its own outer, or exports that are each other's outer.
RECURSIVE ExportChainRunsOn(_, _, _)
ExportChainRunsOn(pk, i, fuel) ==
    IF i <= 0 \/ ~RefExists(pk, i) THEN FALSE
    ELSE IF fuel = 0 THEN TRUE
    ELSE ExportChainRunsOn(pk, RefOuter(pk, i), fuel - 1)

\* C8: when the outer chain of an export does not reach 0 within
\* len(export_table) + len(import_table) steps (an export that is its own
\* outer, two exports that are each other's outer), resolution stops within
\* that bound and returns "<invalid>".
C8_CyclicBounded ==
    (/\ n_pc \in {"walk", "done"}
     /\ n_call.fn \in ExportFns
     /\ ExportChainRunsOn(pak, n_call.index, TableSize(pak)))
        => /\ n_steps <= TableSize(pak)
           /\ n_pc = "done" => n_ret = S_Invalid

\* C9: the path functions follow the sign convention for the index they are
\* called with and for every outer_index on the way: the path returned for
\* an existing entry with an acyclic chain is made of the names of the
\* objects on its outer chain, outermost first.
C9_SignConvention ==
    (/\ n_pc = "done"
     /\ n_call.fn \in {"get_export_path_name", "get_import_path_name"}
     /\ Acyclic(pak, n_call.index))
        => StripSeps(n_ret) = ChainNames(pak, n_call.index, TableSize(pak))

\* C10: each separator get_export_path_name puts in front of the path built
\* so far is ":" exactly when the class of the outer object it is at is not
\* Package and that object's own outer is of class Package (or none), and "."
\* otherwise.
C10_SeparatorRule ==
    [][(/\ n_call.fn \in ExportFns
        /\ n_pc = "walk"
        /\ n_result # <<>>
        /\ n_steps' = n_steps + 1)
          => n_result'[Len(n_result') - Len(n_result)]
                = ExpectedSep(pak, n_linker)]_vars


(***************************************************************************)
(* usize arithmetic.  USIZE stands for 2^64: an i32 cast `as usize` keeps  *)
(* a non-negative value and sends a negative one to the top of the range;  *)
(* an addition that passes USIZE panics in a build with overflow checks    *)
(* and wraps in a build without.                                           *)
(***************************************************************************)

USIZE == 256 * 256 * 256

AsUsize(x) == IF x < 0 THEN USIZE + x ELSE x

\* usize as i32 for the values that fit.
AsI32(x) == IF x >= USIZE \div 2 THEN x - USIZE ELSE x

None == [some |-> FALSE]

Some(v) == [some |-> TRUE, v |-> v]

(***************************************************************************)
(* Script extraction (scriptdisasm.rs).  Positions are 0-based offsets     *)
(* into the blob.                                                          *)
(***************************************************************************)

S_None == <<"N", "o", "n", "e">>

EX_EndOfScript == 83

\* buf.iter().rev().take(8).any(|&b| b == 0x53)
EndsNearEndOfScript(buf) ==
    \E k \in 1..Len(buf) : k > Len(buf) - 8 /\ buf[k] = EX_EndOfScript

try_read_script_array(blob, pos) ==
    IF pos + 4 > Len(blob) THEN None
    ELSE LET sz == AsUsize(ReadI32(blob, pos))
         IN  IF sz = 0 \/ sz > 262144 THEN None
             ELSE IF pos + 4 + sz > Len(blob) THEN None
             ELSE LET buf == SubSeq(blob, pos + 5, pos + 4 + sz)
                  IN  IF EndsNearEndOfScript(buf) THEN Some(buf) ELSE None

\* The position after the terminating None name, or None when the walk
\* fails.
RECURSIVE skip_tagged_properties(_, _, _)
skip_tagged_properties(blob, pk, pos) ==
    IF pos + 8 > Len(blob) THEN None
    ELSE LET name_idx == AsUsize(ReadI32(blob, pos))
             name == IF Has(pk.name_table, name_idx)
                     THEN Get(pk.name_table, name_idx) ELSE <<>>
         IN  IF name = <<>> \/ name = S_None THEN Some(pos + 8)
             ELSE IF pos + 24 > Len(blob) THEN None
             ELSE LET size == ReadI32(blob, pos + 16)
                  IN  IF size < 0 \/ size > 1048576 THEN None
                      ELSE skip_tagged_properties(blob, pk, pos + 24 + size)

\* for i in 4..blob.len().saturating_sub(4), from position i on.
RECURSIVE heuristic_script_scan_from(_, _)
heuristic_script_scan_from(blob, i) ==
    IF i >= Len(blob) - 4 THEN None
    ELSE LET sz == AsUsize(ReadI32(blob, i))
             end == i + 4 + sz
         IN  IF sz < 4 \/ sz > 262144 \/ end > Len(blob)
             THEN heuristic_script_scan_from(blob, i + 1)
             ELSE LET candidate == SubSeq(blob, i + 5, end)
                  IN  IF EndsNearEndOfScript(candidate) THEN Some(candidate)
                      ELSE heuristic_script_scan_from(blob, i + 1)

heuristic_script_scan(blob) == heuristic_script_scan_from(blob, 4)

\* for extra_skips in 0..=4, from extra_skips = k on; None when no probe
\* finds a Script array.
RECURSIVE ProbeScript(_, _, _)
ProbeScript(blob, props_end, k) ==
    IF k > 4 \/ props_end + 4 * k >= Len(blob) THEN None
    ELSE LET r == try_read_script_array(blob, props_end + 4 * k)
         IN  IF r.some THEN r ELSE ProbeScript(blob, props_end, k + 1)

extract_script_from_export_blob(blob, pk) ==
    IF Len(blob) < 8 THEN None
    ELSE LET props == skip_tagged_properties(blob, pk, 4)
         IN  IF ~props.some THEN None
             ELSE LET r == ProbeScript(blob, props.v, 0)
                  IN  IF r.some THEN r ELSE heuristic_script_scan(blob)


(***************************************************************************)
(* Header inputs: byte images laid out as a package header, with the       *)
(* structural fields drawn from small sets and every other field holding   *)
(* a filler of its own (several with the top bit set).                     *)
(***************************************************************************)

MaxGens == 2

MaxChunks == 2

HVersions == {515, 516, 583, 584, 622, 623, 766, 767}

HPathLens == {-1, 0, 2}

HCounts == {-1, 0, 1}

HGenCounts == -1..MaxGens

HMethods == {0, 1, 2, 3, 4}

HChunkCounts == 0..MaxChunks

HEnds == {"short", "exact", "extra"}

\* The four bytes of a small count as they lie in a file.
Word(n) == IF n < 0 THEN <<256 + n, 255, 255, 255>> ELSE <<n, 0, 0, 0>>

Filler(k) == <<k, 128 + k, 2 * k, 255 - k>>

Fillers(from, n) == Flatten([i \in 1..n |-> Filler(from + i - 1)])

HeaderImage(good, ver, pl, ec, gc, m, cc, end) ==
    LET body ==
          (IF good THEN <<193, 131, 42, 158>> ELSE <<193, 131, 42, 159>>)
          \o <<ver % 256, ver \div 256>> \o <<3, 128>>
          \o Filler(1) \o Word(pl)
          \o [i \in 1..PathBytes(pl) |-> 64 + i]
          \o Filler(2)
          \o Word(1) \o Filler(3) \o Word(ec) \o Filler(4)
          \o Word(2) \o Filler(5) \o Filler(6)
          \o (IF ver >= 623 THEN Fillers(7, 3) ELSE <<>>)
          \o (IF ver >= 584 THEN Filler(10) ELSE <<>>)
          \o Fillers(11, 4)
          \o Word(gc) \o Fillers(20, 3 * (IF gc < 0 THEN 0 ELSE gc))
          \o Filler(15) \o Filler(16)
          \o Word(m) \o Word(cc) \o Fillers(40, 4 * cc)
          \o Filler(17)
          \o (IF ver >= 516 THEN Filler(18) ELSE <<>>)
          \o (IF ver >= 767 THEN Filler(19) ELSE <<>>)
    IN  CASE end = "short" -> SubSeq(body, 1, Len(body) - 3)
          [] end = "exact" -> body
          [] end = "extra" -> body \o <<222, 173>>

HeaderInit ==
    /\ mode = "header"
    /\ h_pc = "start"
    /\ \E good \in BOOLEAN, ver \in HVersions, pl \in HPathLens,
          ec \in HCounts, gc \in HGenCounts, m \in HMethods,
          cc \in HChunkCounts, end \in HEnds :
          h_in = HeaderImage(good, ver, pl, ec, gc, m, cc, end)
    /\ h_res = [kind |-> "None"]
    /\ h_out = <<>>
    /\ pak = NoPak
    /\ NamesIdle
    /\ PatchIdle
    /\ XIdle

HeaderRead ==
    /\ mode = "header"
    /\ h_pc = "start"
    /\ h_res' = UpkHeaderRead(h_in)
    /\ h_pc' = "read"
    /\ UNCHANGED <<mode, h_in, h_out, pak, nvars, pvars, xvars>>

HeaderWrite ==
    /\ mode = "header"
    /\ h_pc = "read"
    /\ h_res.kind = "Ok"
    /\ h_out' = UpkHeaderWrite(h_res.hdr)
    /\ h_pc' = "written"
    /\ UNCHANGED <<mode, h_in, h_res, pak, nvars, pvars, xvars>>

HeaderNext == HeaderRead \/ HeaderWrite

SpecHeader == HeaderInit /\ [][HeaderNext]_vars

\* C1: for every byte sequence UpkHeader::read accepts, UpkHeader::write of
\* the header it returned, unmodified, produces exactly the bytes read
\* consumed.
C1_HeaderRoundTrip ==
    h_pc = "written" => h_out = SubSeq(h_in, 1, h_res.consumed)

\* A header of version 767 with a folder path, generations and chunk
\* descriptors, followed by bytes that are not part of it, has been read and
\* written back.
C1_Witness ==
    /\ h_pc = "written"
    /\ h_res.hdr.p_ver >= 767
    /\ Len(h_res.hdr.path) > 0
    /\ Len(h_res.hdr.gens) = MaxGens
    /\ Len(h_res.hdr.compressed_chunks) = MaxChunks
    /\ h_res.consumed < Len(h_in)

(***************************************************************************)
(* The offline patch applier (scriptpatcher.rs) and what it calls.         *)
(***************************************************************************)

UpperLetters ==
    <<"A", "B", "C", "D", "E", "F", "G", "H", "I", "J", "K", "L", "M",
      "N", "O", "P", "Q", "R", "S", "T", "U", "V", "W", "X", "Y", "Z">>

LowerLetters ==
    <<"a", "b", "c", "d", "e", "f", "g", "h", "i", "j", "k", "l", "m",
      "n", "o", "p", "q", "r", "s", "t", "u", "v", "w", "x", "y", "z">>

LowerChar(c) ==
    IF \E i \in DOMAIN UpperLetters : UpperLetters[i] = c
    THEN LowerLetters[CHOOSE i \in DOMAIN UpperLetters : UpperLetters[i] = c]
    ELSE c

to_lowercase(s) == [i \in 1..Len(s) |-> LowerChar(s[i])]

\* str::contains: the needle occurs somewhere in the haystack.
contains(hay, needle) ==
    \E p \in 0..(Len(hay) - Len(needle)) :
        SubSeq(hay, p + 1, p + Len(needle)) = needle

\* The while loop of get_export_path_name run to its end.
RECURSIVE get_export_path_name_from(_, _, _)
get_export_path_name_from(pk, li, result) ==
    IF li = 0 THEN result
    ELSE LET it == ExportPathIter(pk, li, result)
         IN  IF it.brk THEN result
             ELSE get_export_path_name_from(pk, it.linker, it.result)

get_export_full_name(pk, export_index) ==
    IF FullNameInvalid(pk, "get_export_full_name", export_index)
    THEN S_Invalid
    ELSE FullNameOf(pk, "get_export_full_name", export_index,
                    get_export_path_name_from(pk, export_index, <<>>))

\* Export::read at position pos: the entry and the position after it.  Of
\* the fields read, the record keeps those the rest of the program uses.
ExportRead(raw, pos, ver) ==
    IF pos + 40 > Len(raw) THEN HErr("UnexpectedEof")
    ELSE LET p1 == pos + 40
             has_map == ver < 543
             map_ok == ~has_map \/ p1 + 4 <= Len(raw)
             count == IF has_map /\ map_ok THEN ReadI32(raw, p1) ELSE 0
             p2 == IF has_map
                   THEN p1 + 4 + 12 * (IF count < 0 THEN 0 ELSE count)
                   ELSE p1
         IN  IF ~map_ok \/ p2 + 8 > Len(raw) THEN HErr("UnexpectedEof")
             ELSE LET gen_count == ReadI32(raw, p2 + 4)
                  IN  IF gen_count < 0 THEN HPanic("capacity overflow")
                      ELSE IF p2 + 8 + 4 * gen_count + 20 > Len(raw)
                      THEN HErr("UnexpectedEof")
                      ELSE [kind |-> "Ok",
                            next |-> p2 + 8 + 4 * gen_count + 20,
                            entry |->
                              [class_index |-> ReadI32(raw, pos),
                               super_index |-> ReadI32(raw, pos + 4),
                               outer_index |-> ReadI32(raw, pos + 8),
                               object_name |->
                                 [name_index |-> ReadI32(raw, pos + 12),
                                  name_instance |-> ReadI32(raw, pos + 16)],
                               archetype |-> ReadI32(raw, pos + 20),
                               serial_size |-> ReadI32(raw, pos + 32),
                               serial_offset |-> ReadI32(raw, pos + 36)]]

\* The export-table loop of parse_upk: n entries from position pos on.
RECURSIVE ReadExports(_, _, _, _)
ReadExports(raw, pos, ver, n) ==
    IF n <= 0 THEN [kind |-> "Ok", table |-> <<>>]
    ELSE LET r == ExportRead(raw, pos, ver)
         IN  IF r.kind # "Ok" THEN r
             ELSE LET rest == ReadExports(raw, r.next, ver, n - 1)
                  IN  IF rest.kind # "Ok" THEN rest
                      ELSE [kind |-> "Ok",
                            table |-> <<r.entry>> \o rest.table]

\* A usize sum that passed the top of the range panics under overflow
\* checks.
Overflows(r, checks) == r >= USIZE /\ checks

\* The loop of export_serial_positions with n iterations to go.
RECURSIVE SerialPositionsFrom(_, _, _, _, _)
SerialPositionsFrom(raw, ver, pos, n, checks) ==
    IF n <= 0 THEN [kind |-> "Ok", v |-> <<>>]
    ELSE IF Overflows(pos + 40, checks) THEN HPanic("add overflow")
    ELSE IF (pos + 40) % USIZE > Len(raw) THEN [kind |-> "Ok", v |-> <<>>]
    ELSE
      LET entry == [sz_pos |-> (pos + 32) % USIZE,
                    off_pos |-> (pos + 36) % USIZE]
          only == [kind |-> "Ok", v |-> <<entry>>]
          p1 == (pos + 40) % USIZE
          has_map == ver < 543
          cnt == IF has_map /\ p1 + 4 <= Len(raw)
                 THEN AsUsize(ReadI32(raw, p1)) ELSE 0
          p2 == IF has_map THEN p1 + 4 + cnt * 12 ELSE p1
          p3 == (p2 % USIZE) + 4
          gc == IF (p3 % USIZE) + 4 <= Len(raw)
                THEN AsUsize(ReadI32(raw, p3 % USIZE)) ELSE 0
          p4 == (p3 % USIZE) + 4 + gc * 4 + 20
      IN  IF has_map /\ p1 + 4 > Len(raw) THEN only
          ELSE IF Overflows(p2, checks) \/ Overflows(p3, checks)
          THEN HPanic("add overflow")
          ELSE IF p3 % USIZE > Len(raw) THEN only
          ELSE IF (p3 % USIZE) + 4 > Len(raw) THEN only
          ELSE IF Overflows(p4, checks) THEN HPanic("add overflow")
          ELSE LET rest == SerialPositionsFrom(raw, ver, p4 % USIZE, n - 1,
                                               checks)
               IN  IF rest.kind # "Ok" THEN rest
                   ELSE [kind |-> "Ok", v |-> <<entry>> \o rest.v]

export_serial_positions(raw, header, checks) ==
    IF header.export_count < 0 THEN HPanic("capacity overflow")
    ELSE SerialPositionsFrom(raw, header.p_ver,
                             AsUsize(header.export_offset),
                             header.export_count, checks)


\* `&upk_raw[s..e]`: the slice, or the panic of an index out of order or
\* past the end.
SliceOk(raw, s, e) == s <= e /\ e <= Len(raw)

Slice(raw, s, e) == SubSeq(raw, s + 1, e)

\* blob.windows(search.len()).position(|w| w == search): the offsets at
\* which the search bytes lie in the blob.
WindowPositions(blob, search) ==
    {q \in 0..(Len(blob) - Len(search)) :
        Slice(blob, q, q + Len(search)) = search}

Least(S) == CHOOSE m \in S : \A x \in S : m <= x

\* The body of `for sp in &patch.script_patches` for one patch: the patch
\* is skipped with a warning, or a new blob is made for an export, or the
\* thread panics.
ApplyScriptPatch(raw, pk, sp, checks) ==
    LET needle == to_lowercase(sp.data_name)
        found == {i \in 0..(Len(pk.export_table) - 1) :
                    contains(to_lowercase(get_export_full_name(pk, i + 1)),
                             needle)}
    IN  IF found = {} THEN [kind |-> "skip", line |-> "no export"]
        ELSE
          LET exp_idx == Least(found)
              exp == Get(pk.export_table, exp_idx)
              s == AsUsize(exp.serial_offset)
              sum == s + AsUsize(exp.serial_size)
              e == sum % USIZE
          IN  IF Overflows(sum, checks) THEN HPanic("add overflow")
              ELSE IF e > Len(raw)
              THEN [kind |-> "skip", line |-> "out of bounds"]
              ELSE IF ~SliceOk(raw, s, e) THEN HPanic("slice index")
              ELSE
                LET blob == Slice(raw, s, e)
                    old_script == extract_script_from_export_blob(blob, pk)
                    search == WriteI32(Len(old_script.v)) \o old_script.v
                    offs == WindowPositions(blob, search)
                    tarray_off == Least(offs)
                    new_bc == sp.data
                IN  IF ~old_script.some
                    THEN [kind |-> "skip", line |-> "cannot locate Script"]
                    ELSE IF offs = {}
                    THEN [kind |-> "skip",
                          line |-> "cannot pin Script TArray"]
                    ELSE [kind |-> "apply", line |-> "patch",
                          exp_idx |-> exp_idx,
                          new_blob |->
                            Slice(blob, 0, tarray_off)
                            \o WriteI32(Len(new_bc)) \o new_bc
                            \o Slice(blob,
                                     tarray_off + 4 + Len(old_script.v),
                                     Len(blob))]

\* An insert that keeps the value a key already has.
MapInsertKeepOld(m, k, v) ==
    [x \in DOMAIN m \cup {k} |-> IF x \in DOMAIN m THEN m[x] ELSE v]

\* replacements.insert(exp_idx, new_blob)
MapInsert(m, k, v) ==
    [x \in DOMAIN m \cup {k} |-> IF x = k THEN v ELSE m[x]]

\* order: the exports with serial_size > 0 in a stable sort by
\* serial_offset, as 0-based export indices.
RECURSIVE SortByOffset(_, _)
SortByOffset(pk, S) ==
    IF S = {} THEN <<>>
    ELSE LET off(i) == Get(pk.export_table, i).serial_offset
             m == CHOOSE i \in S :
                    \A j \in S : off(i) < off(j) \/ (off(i) = off(j) /\ i <= j)
         IN  <<m>> \o SortByOffset(pk, S \ {m})

DataOrder(pk) ==
    SortByOffset(pk, {i \in 0..(Len(pk.export_table) - 1) :
                        Get(pk.export_table, i).serial_size > 0})

\* `for &ei in &order`, from the k-th element of order on, with the file
\* built so far and new_serial.
RECURSIVE LayBlobs(_, _, _, _, _, _, _, _)
LayBlobs(raw, pk, repl, order, k, new_file, new_serial, checks) ==
    IF k > Len(order)
    THEN [kind |-> "Ok", new_file |-> new_file, new_serial |-> new_serial]
    ELSE
      LET ei == order[k]
          exp == Get(pk.export_table, ei)
          cur_off == Len(new_file)
          s == AsUsize(exp.serial_offset)
          sum == s + AsUsize(exp.serial_size)
          patched == ei \in DOMAIN repl
          blob == IF patched THEN repl[ei] ELSE Slice(raw, s, sum % USIZE)
      IN  IF ~patched /\ Overflows(sum, checks) THEN HPanic("add overflow")
          ELSE IF ~patched /\ ~SliceOk(raw, s, sum % USIZE)
          THEN HPanic("slice index")
          ELSE LayBlobs(raw, pk, repl, order, k + 1, new_file \o blob,
                        [new_serial EXCEPT ![ei + 1] =
                            [off |-> AsI32(cur_off), sz |-> AsI32(Len(blob))]],
                        checks)

\* new_file[pos..pos + 4].copy_from_slice(bytes), under `pos + 4 <= len`.
CopyAt(file, pos, bytes) ==
    IF pos + 4 <= Len(file)
    THEN [x \in 1..Len(file) |->
            IF pos < x /\ x <= pos + 4 THEN bytes[x - pos] ELSE file[x]]
    ELSE file

\* The loop that patches serial_size and serial_offset in the export table,
\* from the k-th element of serial_pos on.
RECURSIVE PatchFields(_, _, _, _)
PatchFields(new_file, serial_pos, new_serial, k) ==
    IF k > Len(serial_pos) THEN [kind |-> "Ok", new_file |-> new_file]
    ELSE IF k > Len(new_serial) THEN HPanic("index out of bounds")
    ELSE PatchFields(
           CopyAt(CopyAt(new_file, serial_pos[k].sz_pos,
                         WriteI32(new_serial[k].sz)),
                  serial_pos[k].off_pos, WriteI32(new_serial[k].off)),
           serial_pos, new_serial, k + 1)

\* "Rebuild the file": everything after `if replacements.is_empty()`.
RebuildFile(raw, pk, repl, serial_pos, checks) ==
    LET order == DataOrder(pk)
        first == Get(pk.export_table, order[1])
        last == Get(pk.export_table, order[Len(order)])
        min_data_off == IF order = <<>> THEN Len(raw)
                        ELSE AsUsize(first.serial_offset)
        orig_data_end == IF order = <<>> THEN Len(raw)
                         ELSE AsUsize(last.serial_offset + last.serial_size)
        laid == LayBlobs(raw, pk, repl, order, 1,
                         Slice(raw, 0, min_data_off),
                         [i \in 1..Len(pk.export_table) |->
                            [off |-> pk.export_table[i].serial_offset,
                             sz |-> pk.export_table[i].serial_size]],
                         checks)
        trailer == IF orig_data_end < Len(raw)
                   THEN Slice(raw, orig_data_end, Len(raw)) ELSE <<>>
    IN  IF ~SliceOk(raw, 0, min_data_off) THEN HPanic("slice index")
        ELSE IF laid.kind # "Ok" THEN laid
        ELSE PatchFields(laid.new_file \o trailer, serial_pos,
                         laid.new_serial, 1)


(***************************************************************************)
(* Patch inputs: package files of a few exports whose export table is      *)
(* parsed from the file itself, and short lists of script patches.         *)
(***************************************************************************)

MaxPExports == 2

MaxPatches == 2

PNameTable == <<S_None, <<"F", "a">>, <<"F", "b">>, <<"F", "c">>>>

\* Version 542 carries the legacy component map in each export entry,
\* version 543 does not.
PVersions == {542, 543}

PKinds == {"func", "echo", "plain"}

\* How an export's data lies in the file: directly after the data before
\* it; after two bytes that belong to no export; without data, serial_size
\* 0 or -1; with serial_offset -1; with a serial_size that passes the end
\* of the file.
PPlaces == {"ok", "gap", "zero", "negsize", "negoff", "oob"}

PTrailers == {<<>>, <<222, 173>>}

\* The script every function export holds, and the bytecode a patch
\* brings: the same bytes, fewer, more.
PScript == <<11, EX_EndOfScript>>

PBytecodes == {PScript, <<EX_EndOfScript>>, <<37, 11, EX_EndOfScript>>}

\* Paths of one export, of both exports (in another case) and of none.
PPaths == {<<"F", "a">>, <<"f", "B">>, <<"f">>, <<"Z", "z">>}

\* A function export: net index, the None that ends the properties, one
\* zero field, the Script array, two more bytes.  An "echo" function
\* export has one tagged property before the None, named Fa, whose value
\* is six bytes equal to the bytes of the Script array.  Any other export:
\* net index and the None.
PBlob(kind, i) ==
    CASE kind = "func" ->
           <<i, 0, 0, 0>> \o Word(0) \o Word(0) \o Word(0)
           \o WriteI32(Len(PScript)) \o PScript \o <<7, 9>>
      [] kind = "echo" ->
           <<i, 0, 0, 0>> \o Word(1) \o Word(0) \o Word(2) \o Word(0)
           \o WriteI32(4 + Len(PScript)) \o Word(0)
           \o WriteI32(Len(PScript)) \o PScript
           \o Word(0) \o Word(0) \o Word(0)
           \o WriteI32(Len(PScript)) \o PScript \o <<7, 9>>
      [] OTHER -> <<i, 0, 0, 0>> \o Word(0) \o Word(0)

PHasData(place) == place \notin {"zero", "negsize"}

POobExcess == 100 + 100

\* serial_size as the table states it.
PSize(e, i) ==
    CASE e.place = "zero" -> 0
      [] e.place = "negsize" -> -1
      [] e.place = "oob" -> Len(PBlob(e.kind, i)) + POobExcess
      [] OTHER -> Len(PBlob(e.kind, i))

\* The bytes export i adds to the data section.
PData(e, i) ==
    (IF e.place = "gap" THEN <<238, 239>> ELSE <<>>)
    \o (IF PHasData(e.place) THEN PBlob(e.kind, i) ELSE <<>>)

\* Position of the first byte of export i's blob, the data section
\* starting at position start.
RECURSIVE PBlobStart(_, _, _)
PBlobStart(es, i, start) ==
    IF i = 1 THEN start + (IF es[1].place = "gap" THEN 2 ELSE 0)
    ELSE PBlobStart(es, i - 1, start)
         + (IF PHasData(es[i - 1].place)
            THEN Len(PBlob(es[i - 1].kind, i - 1)) ELSE 0)
         + (IF es[i].place = "gap" THEN 2 ELSE 0)

PEntry(ver, e, i, at) ==
    Word(0) \o Word(0) \o Word(0) \o Word(i) \o Word(0) \o Word(0)
    \o Filler(i) \o Filler(i + 8)
    \o WriteI32(PSize(e, i))
    \o WriteI32(IF e.place = "negoff" THEN -1 ELSE at)
    \o (IF ver < 543 THEN Word(1) \o Fillers(30, 3) ELSE <<>>)
    \o Filler(21) \o Word(0) \o Fillers(22, 4) \o Filler(26)

PHead(ver) == <<193, 131, 42, 158>> \o WriteU16(ver) \o <<3, 128>>

PImage(ver, es, trailer) ==
    LET n == Len(es)
        start == Len(PHead(ver)) + n * Len(PEntry(ver, es[1], 1, 0))
    IN  PHead(ver)
        \o Flatten([i \in 1..n |->
                      PEntry(ver, es[i], i, PBlobStart(es, i, start))])
        \o Flatten([i \in 1..n |-> PData(es[i], i)])
        \o trailer

\* Export lists with at most one export that is not laid out plainly, the
\* exports with the echoed Script bytes among the plain ones.
PExportLists ==
    UNION {{es \in [1..n -> [kind : PKinds, place : PPlaces]] :
              /\ Cardinality({i \in 1..n : es[i].place # "ok"}) <= 1
              /\ \A i \in 1..n : es[i].kind = "echo" => es[i].place = "ok"} :
           n \in 1..MaxPExports}

PPatchLists ==
    UNION {[1..n -> [data_name : PPaths, data : PBytecodes]] :
           n \in 0..MaxPatches}

PatchInit ==
    /\ mode = "patch"
    /\ \E ver \in PVersions, es \in PExportLists, trailer \in PTrailers :
         /\ p_raw = PImage(ver, es, trailer)
         /\ p_hdr = [p_ver |-> ver, export_offset |-> Len(PHead(ver)),
                     export_count |-> Len(es)]
    /\ pak = [name_table |-> PNameTable,
              export_table |->
                  ReadExports(p_raw, p_hdr.export_offset, p_hdr.p_ver,
                              p_hdr.export_count).table,
              import_table |-> <<>>]
    /\ p_patches \in PPatchLists
    /\ overflow_checks \in BOOLEAN
    /\ p_pc = "start"
    /\ p_i = 1
    /\ p_serial_pos = <<>>
    /\ p_repl = <<>>
    /\ p_log = <<>>
    /\ p_out = <<>>
    /\ h_pc = "idle"
    /\ h_in = <<>>
    /\ h_res = [kind |-> "None"]
    /\ h_out = <<>>
    /\ NamesIdle
    /\ XIdle

\* let serial_pos = export_serial_positions(upk_raw, header);
PatchStart ==
    /\ mode = "patch"
    /\ p_pc = "start"
    /\ \E r \in {export_serial_positions(p_raw, p_hdr, overflow_checks)} :
           IF r.kind = "Ok"
           THEN p_serial_pos' = r.v /\ p_pc' = "loop"
           ELSE p_pc' = "panic" /\ UNCHANGED p_serial_pos
    /\ UNCHANGED <<mode, hvars, pak, nvars, xvars, p_raw, p_hdr, p_patches, p_i,
                   p_repl, p_log, p_out, overflow_checks>>

\* One iteration of the loop over the script patches.
PatchStep ==
    /\ mode = "patch"
    /\ p_pc = "loop"
    /\ p_i <= Len(p_patches)
    /\ \E r \in {ApplyScriptPatch(p_raw, pak, p_patches[p_i],
                                  overflow_checks)} :
           CASE r.kind = "skip" ->
                  /\ p_log' = Append(p_log, r.line)
                  /\ p_i' = p_i + 1
                  /\ UNCHANGED <<p_repl, p_pc>>
             [] r.kind = "apply" ->
                  /\ p_log' = Append(p_log, r.line)
                  /\ p_repl' = MapInsert(p_repl, r.exp_idx, r.new_blob)
                  /\ p_i' = p_i + 1
                  /\ UNCHANGED p_pc
             [] OTHER ->
                  /\ p_pc' = "panic"
                  /\ UNCHANGED <<p_log, p_repl, p_i>>
    /\ UNCHANGED <<mode, hvars, pak, nvars, xvars, p_raw, p_hdr, p_patches,
                   p_serial_pos, p_out, overflow_checks>>

\* if replacements.is_empty() { return Ok(upk_raw.to_vec()); }
PatchReturnUnchanged ==
    /\ mode = "patch"
    /\ p_pc = "loop"
    /\ p_i > Len(p_patches)
    /\ DOMAIN p_repl = {}
    /\ p_out' = p_raw
    /\ p_pc' = "done"
    /\ UNCHANGED <<mode, hvars, pak, nvars, xvars, p_raw, p_hdr, p_patches, p_i,
                   p_serial_pos, p_repl, p_log, overflow_checks>>

\* The rebuild and Ok(new_file).
PatchRebuild ==
    /\ mode = "patch"
    /\ p_pc = "loop"
    /\ p_i > Len(p_patches)
    /\ DOMAIN p_repl # {}
    /\ \E r \in {RebuildFile(p_raw, pak, p_repl, p_serial_pos,
                             overflow_checks)} :
           IF r.kind = "Ok"
           THEN p_out' = r.new_file /\ p_pc' = "done"
           ELSE p_pc' = "panic" /\ UNCHANGED p_out
    /\ UNCHANGED <<mode, hvars, pak, nvars, xvars, p_raw, p_hdr, p_patches, p_i,
                   p_serial_pos, p_repl, p_log, overflow_checks>>

PatchNext ==
    PatchStart \/ PatchStep \/ PatchReturnUnchanged \/ PatchRebuild

SpecPatch == PatchInit /\ [][PatchNext]_vars


(***************************************************************************)
(* What the patch claims speak of, stated on the tables and the files      *)
(* rather than on the applier's steps.                                     *)
(***************************************************************************)

PatchEnded == mode = "patch" /\ p_pc \in {"done", "panic"}

\* The export's data lies inside the file.
InBounds(file, e) ==
    /\ e.serial_offset >= 0
    /\ e.serial_size >= 0
    /\ e.serial_offset + e.serial_size <= Len(file)

Overlap(a, b) ==
    /\ a.serial_size > 0
    /\ b.serial_size > 0
    /\ a.serial_offset < b.serial_offset + b.serial_size
    /\ b.serial_offset < a.serial_offset + a.serial_size

\* Size accounting of a file under an export table.
Accounted(file, table) ==
    /\ \A i \in DOMAIN table :
          table[i].serial_offset + table[i].serial_size <= Len(file)
    /\ \A i, j \in DOMAIN table : i < j => ~Overlap(table[i], table[j])

\* The export table as the returned file states it.
OutTable ==
    ReadExports(p_out, p_hdr.export_offset, p_hdr.p_ver,
                p_hdr.export_count).table

\* The exports (1-based) whose full name contains the patch's path, case
\* ignored; the patch targets the first.
Matching(sp) ==
    {i \in DOMAIN pak.export_table :
        contains(to_lowercase(get_export_full_name(pak, i)),
                 to_lowercase(sp.data_name))}

Targets(sp) == Matching(sp) # {}

Target(sp) == Least(Matching(sp))

\* The Script bytes stored in an export of a file.
ScriptOf(file, e) ==
    IF InBounds(file, e)
    THEN extract_script_from_export_blob(
             Slice(file, e.serial_offset, e.serial_offset + e.serial_size),
             pak)
    ELSE None

\* The patch's export is found, in bounds and has a locatable Script.
Applicable(sp) ==
    Targets(sp) /\ ScriptOf(p_raw, pak.export_table[Target(sp)]).some

AllInBounds == \A i \in DOMAIN pak.export_table :
                  InBounds(p_raw, pak.export_table[i])

\* C2: when every script patch carries exactly the Script bytes its export
\* holds now, apply_patches_to_upk returns the input byte for byte.  Stated
\* for packages whose exports all lie inside the file.
C2_ApplyIdempotent ==
    (/\ PatchEnded
     /\ AllInBounds
     /\ \A k \in DOMAIN p_patches :
           /\ Applicable(p_patches[k])
           /\ p_patches[k].data =
                ScriptOf(p_raw, pak.export_table[Target(p_patches[k])]).v)
    => (p_pc = "done" /\ p_out = p_raw)

\* C3: in the output, every export's serial_offset + serial_size is at most
\* the file length and no two exports overlap, exports of size 0 or less
\* and untargeted exports included.  Stated for outputs of a rebuild from
\* an input that itself satisfies the accounting.
C3_SizeAccounting ==
    (/\ mode = "patch"
     /\ p_pc = "done"
     /\ DOMAIN p_repl # {}
     /\ Accounted(p_raw, pak.export_table))
    => Accounted(p_out, OutTable)

\* All exports in ascending order of original serial_offset, equal offsets
\* in table order.
AscendingOrder ==
    LET n == Len(pak.export_table)
        off(i) == pak.export_table[i].serial_offset
    IN  CHOOSE o \in [1..n -> 1..n] :
          /\ \A a, b \in 1..n : a # b => o[a] # o[b]
          /\ \A a, b \in 1..n :
                a < b => \/ off(o[a]) < off(o[b])
                         \/ off(o[a]) = off(o[b]) /\ o[a] < o[b]

OrigBlob(i) ==
    Slice(p_raw, pak.export_table[i].serial_offset,
          pak.export_table[i].serial_offset
            + pak.export_table[i].serial_size)

LaidBlob(i) == IF (i - 1) \in DOMAIN p_repl THEN p_repl[i - 1] ELSE OrigBlob(i)

\* The position at which the k-th export of the order is to lie.
RECURSIVE RunningPosition(_, _)
RunningPosition(o, k) ==
    IF k = 1 THEN pak.export_table[o[1]].serial_offset
    ELSE RunningPosition(o, k - 1) + Len(LaidBlob(o[k - 1]))

IsFieldByte(x) ==
    \E k \in DOMAIN p_serial_pos :
        \/ p_serial_pos[k].sz_pos < x /\ x <= p_serial_pos[k].sz_pos + 4
        \/ p_serial_pos[k].off_pos < x /\ x <= p_serial_pos[k].off_pos + 4

\* C4: when a patch is applied the output is the input before the smallest
\* original serial_offset, then the blobs of all exports in ascending
\* original offset order, each at the running position with its length as
\* its serial_size, then the input after the last export's original end.
\* Stated for packages whose exports all lie inside the file.
C4_RebuildLayout ==
    (/\ mode = "patch"
     /\ p_pc = "done"
     /\ DOMAIN p_repl # {}
     /\ AllInBounds)
    => LET o == AscendingOrder
           n == Len(o)
           last == pak.export_table[o[n]]
           min_off == pak.export_table[o[1]].serial_offset
           data_end == RunningPosition(o, n) + Len(LaidBlob(o[n]))
       IN  /\ \A x \in 1..min_off :
                 IsFieldByte(x) \/ p_out[x] = p_raw[x]
           /\ \A k \in 1..n :
                 /\ OutTable[o[k]].serial_offset = RunningPosition(o, k)
                 /\ OutTable[o[k]].serial_size = Len(LaidBlob(o[k]))
                 /\ Slice(p_out, RunningPosition(o, k),
                          RunningPosition(o, k) + Len(LaidBlob(o[k])))
                      = LaidBlob(o[k])
           /\ Slice(p_out, data_end, Len(p_out))
                = Slice(p_raw, last.serial_offset + last.serial_size,
                        Len(p_raw))

\* C5: if no script patch ends up applied (empty list, or every patch
\* skipped for no matching export, an export out of bounds or a Script that
\* cannot be located), apply_patches_to_upk returns normally and returns
\* its input.
C5_NothingAppliedReturnsInput ==
    (/\ PatchEnded
     /\ \A k \in DOMAIN p_patches : ~Applicable(p_patches[k]))
    => (p_pc = "done" /\ p_out = p_raw)

\* The bytecode the last applicable patch for export i brings.
LastPatchFor(i) ==
    LET ks == {k \in DOMAIN p_patches :
                 Applicable(p_patches[k]) /\ Target(p_patches[k]) = i}
    IN  p_patches[CHOOSE k \in ks : \A m \in ks : m <= k].data

\* C6: a skipped patch does not stop the processing: every patch whose
\* export is found, in bounds and has a locatable Script is applied in the
\* output wherever it stands in the list, and an out-of-bounds export
\* anywhere in the table never aborts the apply.  Stated for lists that
\* hold at least one such patch.
C6_ContinuesPastFailures ==
    (/\ mode = "patch"
     /\ \E k \in DOMAIN p_patches : Applicable(p_patches[k])) =>
      /\ p_pc # "panic"
      /\ p_pc = "done" =>
           \A k \in DOMAIN p_patches :
              Applicable(p_patches[k]) =>
                /\ p_log[k] = "patch"
                /\ ScriptOf(p_out, OutTable[Target(p_patches[k])])
                     = Some(LastPatchFor(Target(p_patches[k])))


(***************************************************************************)
(* Length-prefixed strings (scriptpatcher.rs, upkreader.rs).  A string is  *)
(* its sequence of Unicode scalar values.                                  *)
(***************************************************************************)

REPLACEMENT_CHARACTER == 65533

\* char::encode_utf8
Utf8(cp) ==
    IF cp < 128 THEN <<cp>>
    ELSE IF cp < 2048 THEN <<192 + (cp \div 64), 128 + (cp % 64)>>
    ELSE IF cp < 65536
    THEN <<224 + (cp \div 4096), 128 + ((cp \div 64) % 64), 128 + (cp % 64)>>
    ELSE <<240 + (cp \div 262144), 128 + ((cp \div 4096) % 64),
           128 + ((cp \div 64) % 64), 128 + (cp % 64)>>

\* str::as_bytes
as_bytes(s) == Flatten([i \in 1..Len(s) |-> Utf8(s[i])])

write_ue3_string(s) ==
    IF s = <<>> THEN WriteI32(0)
    ELSE WriteI32(Len(as_bytes(s)) + 1) \o as_bytes(s) \o <<0>>

\* The continuation bytes a UTF-8 lead byte asks for; 0 for a byte that
\* cannot lead.
Utf8Need(b0) ==
    IF 194 <= b0 /\ b0 <= 223 THEN 1
    ELSE IF 224 <= b0 /\ b0 <= 239 THEN 2
    ELSE IF 240 <= b0 /\ b0 <= 244 THEN 3
    ELSE 0

\* Whether byte c may stand at place k after lead byte b0.
Utf8ContOk(b0, k, c) ==
    IF k > 1 THEN 128 <= c /\ c <= 191
    ELSE CASE b0 = 224 -> 160 <= c /\ c <= 191
           [] b0 = 237 -> 128 <= c /\ c <= 159
           [] b0 = 240 -> 144 <= c /\ c <= 191
           [] b0 = 244 -> 128 <= c /\ c <= 143
           [] OTHER -> 128 <= c /\ c <= 191

\* How many of the bytes after position p continue the lead byte there.
RECURSIVE Utf8Run(_, _, _)
Utf8Run(b, p, k) ==
    IF k > Utf8Need(b[p]) \/ p + k > Len(b) THEN k - 1
    ELSE IF Utf8ContOk(b[p], k, b[p + k]) THEN Utf8Run(b, p, k + 1)
    ELSE k - 1

Utf8Value(b, p, n) ==
    CASE n = 1 -> (b[p] - 192) * 64 + (b[p + 1] - 128)
      [] n = 2 -> (b[p] - 224) * 4096 + (b[p + 1] - 128) * 64
                  + (b[p + 2] - 128)
      [] OTHER -> (b[p] - 240) * 262144 + (b[p + 1] - 128) * 4096
                  + (b[p + 2] - 128) * 64 + (b[p + 3] - 128)

\* String::from_utf8_lossy from the 1-based position p on: an ill-formed
\* run of bytes becomes one U+FFFD.
RECURSIVE from_utf8_lossy_at(_, _)
from_utf8_lossy_at(b, p) ==
    IF p > Len(b) THEN <<>>
    ELSE IF b[p] < 128 THEN <<b[p]>> \o from_utf8_lossy_at(b, p + 1)
    ELSE LET need == Utf8Need(b[p])
             run == Utf8Run(b, p, 1)
         IN  IF need > 0 /\ run = need
             THEN <<Utf8Value(b, p, need)>>
                  \o from_utf8_lossy_at(b, p + 1 + need)
             ELSE <<REPLACEMENT_CHARACTER>>
                  \o from_utf8_lossy_at(b, p + 1 + run)

from_utf8_lossy(b) == from_utf8_lossy_at(b, 1)

IsHighSurrogate(u) == 55296 <= u /\ u <= 56319

IsLowSurrogate(u) == 56320 <= u /\ u <= 57343

\* char::decode_utf16 from the 1-based position p on; -1 stands for an
\* unpaired surrogate.
RECURSIVE decode_utf16_at(_, _)
decode_utf16_at(u, p) ==
    IF p > Len(u) THEN <<>>
    ELSE IF IsHighSurrogate(u[p]) /\ p < Len(u) /\ IsLowSurrogate(u[p + 1])
    THEN <<65536 + (u[p] - 55296) * 1024 + (u[p + 1] - 56320)>>
         \o decode_utf16_at(u, p + 2)
    ELSE IF IsHighSurrogate(u[p]) \/ IsLowSurrogate(u[p])
    THEN <<-1>> \o decode_utf16_at(u, p + 1)
    ELSE <<u[p]>> \o decode_utf16_at(u, p + 1)

from_utf16_lossy(u) ==
    LET d == decode_utf16_at(u, 1)
    IN  [i \in 1..Len(d) |-> IF d[i] < 0 THEN REPLACEMENT_CHARACTER ELSE d[i]]

\* String::from_utf16: an error on an unpaired surrogate.
from_utf16(u) ==
    LET d == decode_utf16_at(u, 1)
    IN  IF \E i \in 1..Len(d) : d[i] < 0 THEN HErr("InvalidData")
        ELSE [kind |-> "Ok", v |-> d]

\* count little-endian u16 from the 0-based position p on.
ReadU16s(b, p, count) == [i \in 1..count |-> ReadU16(b, p + 2 * (i - 1))]

\* `if buf.last() == Some(&0) { buf.pop(); }`
PopNul(v) ==
    IF v # <<>> /\ v[Len(v)] = 0 THEN SubSeq(v, 1, Len(v) - 1) ELSE v

\* read_ue3_string on a reader holding the bytes b: the string and the
\* number of bytes consumed.
read_ue3_string(b) ==
    IF Len(b) < 4 THEN HErr("UnexpectedEof")
    ELSE LET len == ReadI32(b, 0)
         IN  IF len = 0 THEN [kind |-> "Ok", v |-> <<>>, consumed |-> 4]
             ELSE IF len > 0
             THEN IF 4 + len > Len(b) THEN HErr("UnexpectedEof")
                  ELSE [kind |-> "Ok",
                        v |-> from_utf8_lossy(PopNul(SubSeq(b, 5, 4 + len))),
                        consumed |-> 4 + len]
             ELSE IF 4 + 2 * (-len) > Len(b) THEN HErr("UnexpectedEof")
                  ELSE [kind |-> "Ok",
                        v |-> from_utf16_lossy(PopNul(ReadU16s(b, 4, -len))),
                        consumed |-> 4 + 2 * (-len)]

\* read_string on a cursor at the start of b; a byte read as Latin-1 is the
\* character of the same value.
read_string(b) ==
    IF Len(b) < 4 THEN HErr("UnexpectedEof")
    ELSE LET len == ReadI32(b, 0)
         IN  IF len = 0 THEN [kind |-> "Ok", v |-> <<>>, consumed |-> 4]
             ELSE IF len > 0
             THEN IF 4 + len > Len(b) THEN HErr("UnexpectedEof")
                  ELSE [kind |-> "Ok",
                        v |-> PopNul(SubSeq(b, 5, 4 + len)),
                        consumed |-> 4 + len]
             ELSE IF 4 + 2 * (-len) > Len(b) THEN HErr("UnexpectedEof")
                  ELSE LET r == from_utf16(PopNul(ReadU16s(b, 4, -len)))
                       IN  IF r.kind # "Ok" THEN r
                           ELSE [kind |-> "Ok", v |-> r.v,
                                 consumed |-> 4 + 2 * (-len)]

(***************************************************************************)
(* String inputs: short strings over an ASCII letter, NUL, a Latin-1       *)
(* letter, a letter outside Latin-1 and a character outside the basic      *)
(* plane, written and read back by either reader with other bytes after    *)
(* them.                                                                   *)
(***************************************************************************)

MaxStr == 2

StrChars == {0, 72, 233, 1046, 128512}

StrInputs == UNION {[1..n -> StrChars] : n \in 0..MaxStr}

StrReaders == {"read_ue3_string", "read_string"}

StrFollowers == {<<>>, <<7, 0>>}

StringsInit ==
    /\ mode = "strings"
    /\ s_pc = "start"
    /\ s_str \in StrInputs
    /\ s_reader \in StrReaders
    /\ s_bytes \in StrFollowers
    /\ s_res = [kind |-> "None"]
    /\ h_pc = "idle"
    /\ h_in = <<>>
    /\ h_res = [kind |-> "None"]
    /\ h_out = <<>>
    /\ pak = NoPak
    /\ NamesIdle
    /\ PatchIdle
    /\ DecompIdle
    /\ YIdle

\* write_ue3_string(w, s): the bytes go in front of what follows them.
StringWrite ==
    /\ mode = "strings"
    /\ s_pc = "start"
    /\ s_bytes' = write_ue3_string(s_str) \o s_bytes
    /\ s_pc' = "written"
    /\ UNCHANGED <<mode, hvars, pak, nvars, pvars, dvars, yvars, s_str, s_reader, s_res>>

StringRead ==
    /\ mode = "strings"
    /\ s_pc = "written"
    /\ s_res' = IF s_reader = "read_string" THEN read_string(s_bytes)
                ELSE read_ue3_string(s_bytes)
    /\ s_pc' = "read"
    /\ UNCHANGED <<mode, hvars, pak, nvars, pvars, dvars, yvars, s_str, s_reader, s_bytes>>

StringsNext == StringWrite \/ StringRead

SpecStrings == StringsInit /\ [][StringsNext]_vars

\* The bytes the format gives a string: length 0 and nothing else when it
\* is empty; a positive length, one byte per character and a NUL when all
\* its characters are of ISO-8859-1; else a negative length and UTF-16LE
\* code units with a NUL unit.
Utf16Units(cp) ==
    IF cp < 65536 THEN <<cp>>
    ELSE <<55296 + ((cp - 65536) \div 1024), 56320 + ((cp - 65536) % 1024)>>

FormatBytes(s) ==
    IF s = <<>> THEN WriteI32(0)
    ELSE IF \A i \in 1..Len(s) : s[i] < 256
    THEN WriteI32(Len(s) + 1) \o s \o <<0>>
    ELSE LET units == Flatten([i \in 1..Len(s) |-> Utf16Units(s[i])])
         IN  WriteI32(-(Len(units) + 1))
             \o Flatten([i \in 1..Len(units) |-> WriteU16(units[i])])
             \o <<0, 0>>

\* C11: for every string s, reading back what the string writer wrote for
\* s returns s and consumes exactly the written bytes, and the written
\* bytes are those of the format (a string with a character outside
\* ISO-8859-1 is written with a negative length as UTF-16LE).
C11_StringRoundTrip ==
    (mode = "strings" /\ s_pc = "read") =>
        /\ s_res.kind = "Ok"
        /\ s_res.v = s_str
        /\ s_res.consumed = Len(write_ue3_string(s_str))
        /\ SubSeq(s_bytes, 1, s_res.consumed) = FormatBytes(s_str)


(***************************************************************************)
(* The fields of a header image by their place in the layout.              *)
(***************************************************************************)

ImgSignatureOk == SubSeq(h_in, 1, 4) = WriteU32(PACKAGE_TAG)

ImgVersion == ReadI16(h_in, 4)

\* Position of name_count: after the folder path and the package flags.
ImgCountsAt == 16 + PathBytes(ReadI32(h_in, 12)) + 4

ImgNameCount == ReadI32(h_in, ImgCountsAt)

ImgExportCount == ReadI32(h_in, ImgCountsAt + 8)

ImgImportCount == ReadI32(h_in, ImgCountsAt + 16)

ImgCountsOk == ImgNameCount > 0 /\ ImgExportCount > 0 /\ ImgImportCount > 0

ImgGenCountAt ==
    ImgCountsAt + 28 + (IF ImgVersion >= 623 THEN 12 ELSE 0)
    + (IF ImgVersion >= 584 THEN 4 ELSE 0) + 16

ImgGenCount == ReadI32(h_in, ImgGenCountAt)

ImgMethodAt == ImgGenCountAt + 4 + 12 * ImgGenCount + 8

\* The image reaches to its compression method, and that is none of
\* 0, 1, 2, 4.
ImgMethodUnknown ==
    /\ ImgSignatureOk
    /\ ImgCountsOk
    /\ ImgGenCount >= 0
    /\ ImgMethodAt + 4 <= Len(h_in)
    /\ ReadI32(h_in, ImgMethodAt) \notin {0, 1, 2, 4}

\* C12: UpkHeader::read returns an invalid-header error, and no header,
\* whenever the signature is not 0x9E2A83C1, whenever name_count,
\* export_count or import_count is not positive, and whenever the
\* compression method is none of 0, 1, 2, 4.
C12_HeaderValidation ==
    (/\ mode = "header"
     /\ h_pc # "start"
     /\ \/ ~ImgSignatureOk
        \/ ImgSignatureOk /\ ~ImgCountsOk
        \/ ImgMethodUnknown)
    => h_res = HErr("InvalidData")



(***************************************************************************)
(* The compression layer (upkdecompress.rs) and the loader that rewrites   *)
(* a compressed package (main.rs).                                         *)
(***************************************************************************)

CHUNK_SIZE == 131072

StoreCompressedHi == 512

\* A u32 below 2^31 as a number.
U32Val(v) == v.hi * 65536 + v.lo

U32Of(n) == [hi |-> n \div 65536, lo |-> n % 65536]

SwapU16(x) == (x % 256) * 256 + (x \div 256)

\* u32::swap_bytes
swap_bytes(v) == [hi |-> SwapU16(v.lo), lo |-> SwapU16(v.hi)]

\* header.pak_flags & !PackageFlags::StoreCompressed.bits()
ClearStoreCompressed(v) ==
    [hi |-> IF (v.hi \div StoreCompressedHi) % 2 = 1
            THEN v.hi - StoreCompressedHi ELSE v.hi,
     lo |-> v.lo]

\* u32::div_ceil for a divisor that is not 0.
div_ceil(a, b) == (a + b - 1) \div b

\* Stand-in for the LZO1X decoder of the lzo1x crate, on a run format: a
\* byte c < 128 is followed by c literal bytes, a byte c >= 128 by one byte
\* to be repeated c - 128 times.  The decoded bytes from the 1-based
\* position p on, or <<-1>> in front of them when a run is cut short.
RECURSIVE LzoRuns(_, _)
LzoRuns(src, p) ==
    IF p > Len(src) THEN <<>>
    ELSE IF src[p] < 128
    THEN IF p + src[p] > Len(src) THEN <<-1>>
         ELSE SubSeq(src, p + 1, p + src[p]) \o LzoRuns(src, p + 1 + src[p])
    ELSE IF p + 1 > Len(src) THEN <<-1>>
         ELSE [i \in 1..(src[p] - 128) |-> src[p + 1]] \o LzoRuns(src, p + 2)

\* lzo1x::decompress(&compressed, &mut out) with out of cap bytes.
lzo1x_decompress(src, cap) ==
    LET d == LzoRuns(src, 1)
    IN  IF \E i \in 1..Len(d) : d[i] < 0 THEN HErr("InputOverrun")
        ELSE IF Len(d) > cap THEN HErr("OutputOverrun")
        ELSE [kind |-> "Ok", v |-> d]

Zeros(n) == [i \in 1..n |-> 0]

decompress_chunk(compressed, method, expected_decompress_size) ==
    IF method = "Lzo"
    THEN LET r == lzo1x_decompress(compressed, expected_decompress_size)
         IN  IF r.kind # "Ok" THEN HPanic("unwrap on Err")
             ELSE [kind |-> "Ok",
                   v |-> r.v \o Zeros(expected_decompress_size - Len(r.v))]
    ELSE HPanic("not implemented")

\* `for rchunk in raw_chunks`: the blocks whose table entries lie at
\* position tp, their data at position dp, n of them to go.
RECURSIVE DecompressBlocks(_, _, _, _, _, _)
DecompressBlocks(file, method, bswap, tp, dp, n) ==
    IF n = 0 THEN [kind |-> "Ok", v |-> <<>>]
    ELSE
      LET fix(v) == IF bswap THEN swap_bytes(v) ELSE v
          csize == U32Val(fix(ReadU32(file, tp)))
          dsize == U32Val(fix(ReadU32(file, tp + 4)))
      IN  IF dp + csize > Len(file) THEN HErr("UnexpectedEof")
          ELSE LET c == decompress_chunk(SubSeq(file, dp + 1, dp + csize),
                                         method, dsize)
                   rest == DecompressBlocks(file, method, bswap, tp + 8,
                                            dp + csize, n - 1)
               IN  IF c.kind # "Ok" THEN c
                   ELSE IF rest.kind # "Ok" THEN rest
                   ELSE [kind |-> "Ok", v |-> c.v \o rest.v]

\* The body of `for chunk in chunks` of upk_decompress for one chunk.
DecompressOne(file, method, chunk) ==
    LET off == U32Val(chunk.compressed_offset)
        tag == ReadU32(file, off)
        bswap == tag # PACKAGE_TAG
        fix(v) == IF bswap THEN swap_bytes(v) ELSE v
        size_read == fix(ReadU32(file, off + 4))
        chunk_size == IF size_read = PACKAGE_TAG THEN CHUNK_SIZE
                      ELSE U32Val(size_read)
        summary_2 == U32Val(fix(ReadU32(file, off + 12)))
        total_count == div_ceil(summary_2, chunk_size)
        blocks == DecompressBlocks(file, method, bswap, off + 16,
                                   off + 16 + 8 * total_count, total_count)
        declared == U32Val(chunk.decompressed_size)
    IN  IF off + 16 > Len(file) THEN HErr("UnexpectedEof")
        ELSE IF bswap /\ swap_bytes(tag) # PACKAGE_TAG
        THEN HErr("InvalidData")
        ELSE IF chunk_size = 0 THEN HPanic("divide by zero")
        ELSE IF off + 16 + 8 * total_count > Len(file)
        THEN HErr("UnexpectedEof")
        ELSE IF blocks.kind # "Ok" THEN blocks
        ELSE [kind |-> "Ok",
              v |-> blocks.v \o Zeros(declared - Len(blocks.v))]

\* upk_decompress from the k-th chunk on: the chunks' buffers.
RECURSIVE upk_decompress_from(_, _, _, _)
upk_decompress_from(file, method, chunks, k) ==
    IF k > Len(chunks) THEN [kind |-> "Ok", v |-> <<>>]
    ELSE LET one == DecompressOne(file, method, chunks[k])
         IN  IF one.kind # "Ok" THEN one
             ELSE LET rest == upk_decompress_from(file, method, chunks, k + 1)
                  IN  IF rest.kind # "Ok" THEN rest
                      ELSE [kind |-> "Ok", v |-> <<one.v>> \o rest.v]

upk_decompress(file, method, chunks) ==
    upk_decompress_from(file, method, chunks, 1)


\* chunks.sort_by_key(|c| c.decompressed_offset): a stable sort of the
\* chunks at the positions S.
RECURSIVE SortChunks(_, _)
SortChunks(cs, S) ==
    IF S = {} THEN <<>>
    ELSE LET key(i) == U32Val(cs[i].decompressed_offset)
             m == CHOOSE i \in S :
                    \A j \in S : key(i) < key(j) \/ (key(i) = key(j) /\ i <= j)
         IN  <<cs[m]>> \o SortChunks(cs, S \ {m})

\* writer.write_all(bytes) at position pos of a file: a seek past the end
\* leaves zero bytes behind it.
FileWrite(file, pos, bytes) ==
    SubSeq(file, 1, IF pos < Len(file) THEN pos ELSE Len(file))
    \o Zeros(pos - Len(file)) \o bytes
    \o SubSeq(file, pos + Len(bytes) + 1, Len(file))

\* A clone that keeps the compression method of the original.
ClonedHeaderKeepsMethod(header) ==
    [header EXCEPT !.compressed_chunks_count = [hi |-> 0, lo |-> 0],
                   !.pak_flags = ClearStoreCompressed(header.pak_flags)]

\* The header upk_header_cursor writes in front of the new image.
ClonedHeader(header) ==
    [header EXCEPT !.compression_method = "None",
                   !.compressed_chunks_count = [hi |-> 0, lo |-> 0],
                   !.pak_flags = ClearStoreCompressed(header.pak_flags)]

\* `for (i, c) in dec_data.iter().enumerate()` from the i-th buffer on
\* (1-based): the file written so far and the writer's position.  The u32
\* subtraction that passes below 0 is an Overflow: a panic in a build with
\* overflow checks, and in a build without a read of nearly 2^32 bytes
\* that fails.
RECURSIVE WriteChunksOut(_, _, _, _, _, _)
WriteChunksOut(orig, chunks, dec_data, i, tmp, pos) ==
    IF i > Len(dec_data) THEN [kind |-> "Ok", file |-> tmp, pos |-> pos]
    ELSE
      LET prev == U32Val(chunks[i - 1].compressed_offset)
                  + U32Val(chunks[i - 1].compressed_size)
          diff == U32Val(chunks[i].compressed_offset) - prev
          has_gap == i # 1 /\ diff > 0
          gap == IF has_gap THEN SubSeq(orig, prev + 1, prev + diff) ELSE <<>>
          tmp1 == IF has_gap THEN FileWrite(tmp, pos, gap) ELSE tmp
          at == U32Val(chunks[i].decompressed_offset)
      IN  IF i # 1 /\ diff < 0 THEN [kind |-> "Overflow"]
          ELSE IF has_gap /\ prev + diff > Len(orig)
          THEN HErr("UnexpectedEof")
          ELSE WriteChunksOut(orig, chunks, dec_data, i + 1,
                              FileWrite(tmp1, at, dec_data[i]),
                              at + Len(dec_data[i]))

\* The file upk_header_cursor writes to .tmp.upk from the original file,
\* its header and the decompressed chunks.
RewriteFile(orig, header, chunks, dec_data) ==
    LET head == UpkHeaderWrite(ClonedHeader(header))
        body == WriteChunksOut(orig, chunks, dec_data, 1, head, Len(head))
        last == U32Val(chunks[Len(chunks)].compressed_offset)
                + U32Val(chunks[Len(chunks)].compressed_size)
    IN  IF body.kind # "Ok" THEN body
        ELSE [kind |-> "Ok",
              file |-> IF Len(orig) > last
                       THEN FileWrite(body.file, body.pos,
                                      SubSeq(orig, last + 1, Len(orig)))
                       ELSE body.file]


(***************************************************************************)
(* Loader inputs: package files with a header, chunk descriptors and, at   *)
(* the compressed offsets, chunk records of a few kinds.                   *)
(***************************************************************************)

MaxDChunks == 2

DVersions == {515, 767}

\* The top byte of the package flags: StoreCompressed alone, with another
\* bit, or not set.
DFlagTops == {2, 130, 0}

\* A chunk record's content: sizes that agree; a block that decodes to
\* less than its table entry states; blocks that sum to less than the
\* descriptor states; blocks that sum to more; a block that decodes to more
\* than its table entry states; two blocks.
DKinds == {"exact", "shortblock", "shortchunk", "long", "overrun",
           "twoblocks"}

\* The size the descriptor of chunk i declares.
DDeclared == 3

\* The block table (compressed size, decompressed size) and the block data
\* of a chunk record.
DBlocks(kind, i) ==
    LET lit(n) == <<n>> \o [k \in 1..n |-> 10 * i + k - 1]
        rep(n) == <<128 + n, 10 * i>>
    IN  CASE kind = "exact" ->
               <<[dsize |-> DDeclared, data |-> lit(DDeclared)]>>
          [] kind = "shortblock" ->
               <<[dsize |-> DDeclared, data |-> lit(DDeclared - 1)]>>
          [] kind = "shortchunk" ->
               <<[dsize |-> DDeclared - 1, data |-> rep(DDeclared - 1)]>>
          [] kind = "long" ->
               <<[dsize |-> DDeclared + 1, data |-> rep(DDeclared + 1)]>>
          [] kind = "overrun" ->
               <<[dsize |-> DDeclared, data |-> rep(DDeclared + 1)]>>
          [] OTHER ->
               <<[dsize |-> DDeclared - 1, data |-> lit(DDeclared - 1)],
                 [dsize |-> 1,
                  data |-> <<1, 10 * i + DDeclared - 1>>]>>

DBlockSize(kind) ==
    IF kind = "twoblocks" THEN DDeclared - 1 ELSE DDeclared + 1

\* A u32 as it lies in a chunk record, byte-swapped or not.
DWord(n, bswap) ==
    IF bswap THEN WriteU32(swap_bytes(U32Of(n))) ELSE WriteU32(U32Of(n))

DRecord(kind, i, bswap) ==
    LET bs == DBlocks(kind, i)
        total == IF kind = "long" THEN DDeclared + 1 ELSE DDeclared
    IN  (IF bswap THEN WriteU32(swap_bytes(PACKAGE_TAG))
         ELSE WriteU32(PACKAGE_TAG))
        \o DWord(DBlockSize(kind), bswap)
        \o DWord(Len(Flatten([b \in 1..Len(bs) |-> bs[b].data])), bswap)
        \o DWord(total, bswap)
        \o Flatten([b \in 1..Len(bs) |->
                      DWord(Len(bs[b].data), bswap)
                      \o DWord(bs[b].dsize, bswap)])
        \o Flatten([b \in 1..Len(bs) |-> bs[b].data])

DPreGap == <<171, 205>>

DMidGap == <<186, 220>>

DTrailer == <<222, 173>>

\* The header of a package of version ver with compression method m and the
\* chunk descriptors descs.
DHeader(ver, top, m, descs) ==
    <<193, 131, 42, 158>> \o WriteU16(ver) \o <<3, 128>>
    \o Filler(1) \o Word(0) \o <<9, 0, 8, top>>
    \o Word(1) \o Filler(3) \o Word(1) \o Filler(4)
    \o Word(2) \o Filler(5) \o Filler(6)
    \o (IF ver >= 623 THEN Fillers(7, 3) ELSE <<>>)
    \o (IF ver >= 584 THEN Filler(10) ELSE <<>>)
    \o Fillers(11, 4) \o Word(1) \o Fillers(20, 3)
    \o Filler(15) \o Filler(16)
    \o Word(m) \o Word(Len(descs))
    \o Flatten([i \in 1..Len(descs) |->
                  WriteU32(U32Of(descs[i].doff)) \o WriteU32(U32Of(DDeclared))
                  \o WriteU32(U32Of(descs[i].coff))
                  \o WriteU32(U32Of(descs[i].csize))])
    \o Filler(17)
    \o (IF ver >= 516 THEN Filler(18) ELSE <<>>)
    \o (IF ver >= 767 THEN Filler(19) ELSE <<>>)

\* The file: header, the bytes before the first chunk, the chunk records
\* with the bytes between them, the bytes after the last.  With `room` the
\* decompressed regions leave between them as many bytes as lie between
\* the records.
DImage(ver, top, m, kinds, bswap, pre, mid, room, trail) ==
    LET n == Len(kinds)
        hlen == Len(DHeader(ver, top, m, [i \in 1..n |->
                                 [doff |-> 0, coff |-> 0, csize |-> 0]]))
        rec(i) == DRecord(kinds[i], i, bswap)
        coff(i) == hlen + Len(pre)
                   + (IF i = 1 THEN 0 ELSE Len(rec(1)) + Len(mid))
        doff(i) == hlen - 16 * n + Len(pre)
                   + (IF i = 1 THEN 0
                      ELSE DDeclared + (IF room THEN Len(mid) ELSE 0))
    IN  DHeader(ver, top, m,
                [i \in 1..n |-> [doff |-> doff(i), coff |-> coff(i),
                                 csize |-> Len(rec(i))]])
        \o (IF n > 0 THEN pre ELSE <<>>)
        \o Flatten([i \in 1..n |->
                      (IF i > 1 THEN mid ELSE <<>>) \o rec(i)])
        \o trail

\* Compression method 2 (Lzo) with up to MaxDChunks chunks of which at most
\* one is not "exact"; methods 0 (None) and 1 (Zlib) with "exact" chunks.
DCases ==
    UNION {{[m |-> mn[1], kinds |-> ks] :
              ks \in {k \in [1..mn[2] -> DKinds] :
                        /\ Cardinality({i \in 1..mn[2] : k[i] # "exact"}) <= 1
                        /\ mn[1] # 2 => \A i \in 1..mn[2] : k[i] = "exact"}} :
           mn \in {0, 1, 2} \X (0..MaxDChunks)}

DecompInit ==
    /\ mode = "load"
    /\ \E ver \in DVersions, top \in DFlagTops, c \in DCases,
          bswap \in BOOLEAN,
          pre \in {<<>>, DPreGap}, mid \in {<<>>, DMidGap},
          room \in BOOLEAN, trail \in {<<>>, DTrailer} :
          d_file = DImage(ver, top, c.m, c.kinds, bswap, pre, mid, room,
                          trail)
    /\ d_orig = d_file
    /\ d_pc = "open"
    /\ d_hdr = [kind |-> "None"]
    /\ d_dec = <<>>
    /\ d_passes = 0
    /\ d_res = [kind |-> "None"]
    /\ h_pc = "idle"
    /\ h_in = <<>>
    /\ h_res = [kind |-> "None"]
    /\ h_out = <<>>
    /\ pak = NoPak
    /\ NamesIdle
    /\ PatchIdle
    /\ StringsIdle
    /\ YIdle

\* upk_header_cursor from its entry to the test of the compression method:
\* an uncompressed file is returned as it is; a compressed file without
\* chunk descriptors is removed and the rename of the temporary file that
\* was never written fails.
LoadOpen ==
    /\ mode = "load"
    /\ d_pc = "open"
    /\ \E r \in {UpkHeaderRead(d_file)} :
         IF r.kind = "Panic"
         THEN d_pc' = "panic" /\ UNCHANGED <<d_file, d_hdr, d_res>>
         ELSE IF r.kind = "Err"
         THEN d_pc' = "error" /\ UNCHANGED <<d_file, d_hdr, d_res>>
         ELSE IF r.hdr.compression_method = "None"
         THEN /\ d_res' = [kind |-> "Ok", image |-> d_file, header |-> r.hdr]
              /\ d_pc' = "loaded"
              /\ UNCHANGED <<d_file, d_hdr>>
         ELSE IF r.hdr.compressed_chunks_count # [hi |-> 0, lo |-> 0]
         THEN /\ d_hdr' = r.hdr
              /\ d_pc' = "compressed"
              /\ UNCHANGED <<d_file, d_res>>
         ELSE /\ d_file' = <<>>
              /\ d_pc' = "error"
              /\ UNCHANGED <<d_hdr, d_res>>
    /\ UNCHANGED <<mode, hvars, pak, nvars, pvars, svars, yvars, d_orig, d_dec,
                   d_passes>>

\* The sort of the chunks and upk_decompress(..).expect(..).
LoadDecompress ==
    /\ mode = "load"
    /\ d_pc = "compressed"
    /\ \E r \in {upk_decompress(d_file, d_hdr.compression_method,
                                SortChunks(d_hdr.compressed_chunks,
                                           DOMAIN d_hdr.compressed_chunks))} :
         IF r.kind = "Ok"
         THEN d_dec' = r.v /\ d_pc' = "decoded"
         ELSE d_pc' = "panic" /\ UNCHANGED d_dec
    /\ UNCHANGED <<mode, hvars, pak, nvars, pvars, svars, yvars, d_file, d_orig,
                   d_hdr, d_passes, d_res>>

\* The new image is written to the temporary file, the file is replaced by
\* it, and upk_header_cursor calls itself on the path.
LoadRewrite ==
    /\ mode = "load"
    /\ d_pc = "decoded"
    /\ \E r \in {RewriteFile(d_file, d_hdr,
                             SortChunks(d_hdr.compressed_chunks,
                                        DOMAIN d_hdr.compressed_chunks),
                             d_dec)} :
         IF r.kind = "Ok"
         THEN /\ d_file' = r.file
              /\ d_passes' = d_passes + 1
              /\ d_pc' = "open"
         ELSE /\ d_pc' \in (IF r.kind = "Overflow" THEN {"panic", "error"}
                            ELSE {"error"})
              /\ UNCHANGED <<d_file, d_passes>>
    /\ UNCHANGED <<mode, hvars, pak, nvars, pvars, svars, yvars, d_orig, d_hdr,
                   d_dec, d_res>>

LoadNext == LoadOpen \/ LoadDecompress \/ LoadRewrite

SpecLoad == DecompInit /\ [][LoadNext]_vars


\* The header fields other than the compression method, the chunk
\* descriptors and the package flags.
OtherHeaderFields ==
    {"sign", "p_ver", "l_ver", "header_size", "path_len", "path",
     "name_count", "name_offset", "export_count", "export_offset",
     "import_count", "import_offset", "depends_offset",
     "import_export_guids_offset", "import_guids_count",
     "export_guids_count", "thumbnail_table_offest", "guid", "gen_count",
     "gens", "engine_ver", "cooker_ver", "package_source",
     "additional_packages", "texture_allocs"}

StoreCompressedSet(flags) == (flags.hi \div StoreCompressedHi) % 2 = 1

\* b is a with at most the StoreCompressed bit taken away, and has the bit
\* clear.
OnlyStoreCompressedCleared(a, b) ==
    /\ b.lo = a.lo
    /\ ~StoreCompressedSet(b)
    /\ b.hi = a.hi - (IF StoreCompressedSet(a) THEN StoreCompressedHi ELSE 0)

\* C13: after a compressed package is decompressed, the header at the
\* start of the new image has compression method None, chunk count 0 with
\* no descriptors written, the package flags of the original less
\* StoreCompressed, and every other field as in the original; the load of
\* the rewritten image takes the uncompressed path, so that the load
\* finishes after one decompression pass.
C13_RewrittenHeader ==
    (mode = "load" /\ d_passes >= 1) =>
      /\ d_passes = 1
      /\ d_pc \in {"open", "loaded"}
      /\ LET orig == UpkHeaderRead(d_orig)
             new == UpkHeaderRead(d_file)
         IN  /\ new.kind = "Ok"
             /\ new.hdr.compression_method = "None"
             /\ new.hdr.compressed_chunks_count = [hi |-> 0, lo |-> 0]
             /\ new.hdr.compressed_chunks = <<>>
             /\ new.consumed
                  = orig.consumed - 16 * Len(orig.hdr.compressed_chunks)
             /\ OnlyStoreCompressedCleared(orig.hdr.pak_flags,
                                           new.hdr.pak_flags)
             /\ \A f \in OtherHeaderFields : new.hdr[f] = orig.hdr[f]
      /\ d_pc = "loaded" =>
           /\ d_res.image = d_file
           /\ d_res.header = UpkHeaderRead(d_file).hdr

\* A package of MaxDChunks chunks whose flags held StoreCompressed and a
\* higher bit has been decompressed, rewritten and loaded.
C13_Witness ==
    /\ mode = "load"
    /\ d_pc = "loaded"
    /\ d_passes = 1
    /\ Len(d_hdr.compressed_chunks) = MaxDChunks
    /\ StoreCompressedSet(d_hdr.pak_flags)
    /\ d_hdr.pak_flags.hi > 2 * StoreCompressedHi
    /\ d_res.header.p_ver >= 767


\* The chunk descriptors in the order they are processed.
Sorted == SortChunks(d_hdr.compressed_chunks, DOMAIN d_hdr.compressed_chunks)

DOff(i) == U32Val(Sorted[i].decompressed_offset)

DSize(i) == U32Val(Sorted[i].decompressed_size)

COff(i) == U32Val(Sorted[i].compressed_offset)

CEnd(i) == COff(i) + U32Val(Sorted[i].compressed_size)

\* The n bytes of the original file that end where chunk i's record starts.
OrigBefore(i, n) == SubSeq(d_orig, COff(i) - n + 1, COff(i))

Rewritten == mode = "load" /\ d_passes >= 1

\* Every chunk decoded to the size its descriptor declares.
DeclaredSizes == \A i \in DOMAIN d_dec : Len(d_dec[i]) = DSize(i)

\* C14: in the rewritten image the decoded bytes of each chunk lie at the
\* chunk's decompressed_offset, and the bytes between the end of the header
\* and the first decompressed region and between two adjacent regions are
\* the bytes of the original file in front of the chunk's record.
C14_ImageLayout ==
    (Rewritten /\ DeclaredSizes) =>
      LET hend == UpkHeaderRead(d_file).consumed
      IN  /\ \A i \in DOMAIN d_dec :
                SubSeq(d_file, DOff(i) + 1, DOff(i) + Len(d_dec[i]))
                  = d_dec[i]
          /\ DOff(1) >= hend =>
                SubSeq(d_file, hend + 1, DOff(1))
                  = OrigBefore(1, DOff(1) - hend)
          /\ \A i \in DOMAIN d_dec :
                (i > 1 /\ DOff(i) >= DOff(i - 1) + DSize(i - 1)) =>
                   SubSeq(d_file, DOff(i - 1) + DSize(i - 1) + 1, DOff(i))
                     = OrigBefore(i, DOff(i) - DOff(i - 1) - DSize(i - 1))

\* The sizes the block table of chunk i's record gives for its blocks, as
\* upk_decompress reads them.
BlockTableSizes(i) ==
    LET bswap == ReadU32(d_orig, COff(i)) # PACKAGE_TAG
        word(p) == IF bswap THEN swap_bytes(ReadU32(d_orig, p))
                   ELSE ReadU32(d_orig, p)
        cs == IF word(COff(i) + 4) = PACKAGE_TAG THEN CHUNK_SIZE
              ELSE U32Val(word(COff(i) + 4))
        n == div_ceil(U32Val(word(COff(i) + 12)), cs)
    IN  [b \in 1..n |-> U32Val(word(COff(i) + 16 + 8 * (b - 1) + 4))]

RECURSIVE SumSeq(_)
SumSeq(s) == IF s = <<>> THEN 0 ELSE Head(s) + SumSeq(Tail(s))

\* The blocks of some chunk decode to more bytes than the chunk declares.
LongerThanDeclared ==
    \E i \in DOMAIN Sorted : SumSeq(BlockTableSizes(i)) > DSize(i)

\* C15: upk_decompress fails with an error when the blocks of a chunk
\* decode to more bytes than the chunk's descriptor declares, and every
\* buffer it returns has the declared length.
C15_DecompressedSizes ==
    /\ (mode = "load" /\ d_pc = "compressed" /\ LongerThanDeclared) =>
          upk_decompress(d_file, d_hdr.compression_method, Sorted).kind
            = "Err"
    /\ (mode = "load" /\ d_pc = "decoded") =>
          /\ ~LongerThanDeclared
          /\ DeclaredSizes


(***************************************************************************)
(* Tagged properties (upkprops.rs, upkreader.rs get_obj_props).  A cursor  *)
(* is a blob and a 0-based position; a String is a TLA+ string; an f32 is  *)
(* its bit pattern.  A position past USIZE stands for one that wrapped     *)
(* below zero.                                                             *)
(***************************************************************************)

VER_BYTEPROP_SERIALIZE_ENUM == 633

VER_PROPERTYTAG_BOOL_OPTIMIZATION == 673

KNOWN_TYPES ==
    {"IntProperty", "FloatProperty", "BoolProperty", "ByteProperty",
     "NameProperty", "StrProperty", "ObjectProperty", "ComponentProperty",
     "InterfaceProperty", "ClassProperty", "ArrayProperty", "StructProperty",
     "DelegateProperty", "MapProperty"}

\* A PropertyValue.
PV(t, v) == [t |-> t, v |-> v]

PErr == [kind |-> "Err"]

POk(p, v) == [kind |-> "Ok", pos |-> p, v |-> v]

\* read_exact of n bytes at position p succeeds.
CanRead(blob, p, n) == n = 0 \/ p + n <= Len(blob)

\* upkprops.rs read_fname at a position where 8 bytes can be read.
read_fname(blob, p) ==
    [name_index |-> ReadI32(blob, p), name_instance |-> ReadI32(blob, p + 4)]

resolve_fname(fname, pk) ==
    IF ~Has(pk.name_table, fname.name_index) THEN None
    ELSE LET name == Get(pk.name_table, fname.name_index)
         IN  IF fname.name_instance > 0
             THEN Some(name \o "_" \o ToString(fname.name_instance - 1))
             ELSE Some(name)

\* f32::is_finite: the exponent bits are not all ones.
is_finite(bits) == (bits.hi \div 128) % 256 # 255

\* |f| < 1e10 for a finite f; 1e10 is 0x501502F9.
abs_below_1e10(bits) ==
    LET h == bits.hi % 32768
    IN  h < 20501 \/ (h = 20501 /\ bits.lo < 761)

\* The fields of a struct of fixed layout: labels with the width and the
\* kind of each.
ReadFields(blob, p, labels, width, t) ==
    [k \in 1..Len(labels) |->
       <<labels[k],
         PV(t, IF t = "Byte" THEN blob[p + k]
               ELSE IF t = "Float" THEN ReadU32(blob, p + width * (k - 1))
               ELSE ReadI32(blob, p + width * (k - 1)))>>]

FixedStruct(blob, p, labels, width, t) ==
    IF ~CanRead(blob, p, width * Len(labels)) THEN PErr
    ELSE POk(p + width * Len(labels),
             PV("Struct", ReadFields(blob, p, labels, width, t)))

NoneProperty ==
    [name |-> "None", prop_type |-> "None", size |-> 0, array_index |-> 0,
     value |-> PV("None", 0), enum_name |-> None, struct_name |-> None]

\* The elements of an array whose element size is 1, 4, 8, 12 or 16.
ArrayElements(blob, q, count, elem_size) ==
    LET raw == ReadU32(blob, q)
        rawi == ReadI32(blob, q)
        is_obj == rawi < 0 \/ (rawi > 0 /\ rawi < 65536)
        is_flt4 == ~is_obj /\ is_finite(raw) /\ abs_below_1e10(raw)
        at(k) == q + elem_size * (k - 1)
    IN  [k \in 1..count |->
           CASE elem_size = 1 -> PV("Byte", blob[at(k) + 1])
             [] elem_size = 4 ->
                  IF is_obj THEN PV("Object", ReadI32(blob, at(k)))
                  ELSE IF is_flt4 THEN PV("Float", ReadU32(blob, at(k)))
                  ELSE PV("Int", ReadI32(blob, at(k)))
             [] elem_size = 8 -> PV("Name", read_fname(blob, at(k)))
             [] elem_size = 12 ->
                  IF is_finite(raw)
                  THEN PV("Struct", ReadFields(blob, at(k), <<"X", "Y", "Z">>,
                                               4, "Float"))
                  ELSE PV("Struct", ReadFields(blob, at(k),
                                               <<"Pitch", "Yaw", "Roll">>,
                                               4, "Int"))
             [] OTHER ->
                  IF is_finite(ReadU32(blob, at(k)))
                  THEN PV("Struct", ReadFields(blob, at(k),
                                               <<"X", "Y", "Z", "W">>,
                                               4, "Float"))
                  ELSE PV("Struct", ReadFields(blob, at(k),
                                               <<"A", "B", "C", "D">>,
                                               4, "Int"))]

RECURSIVE parse_property(_, _, _, _, _)
RECURSIVE parse_array(_, _, _, _, _, _)
RECURSIVE parse_struct(_, _, _, _, _, _, _)
RECURSIVE ProbeFields(_, _, _, _, _, _)
RECURSIVE StructElements(_, _, _, _, _, _, _)
RECURSIVE ElementFields(_, _, _, _, _, _, _)
RECURSIVE StructFields(_, _, _, _, _, _, _)

\* The probe of parse_array: "ok", "fail", or a panic.
ProbeFields(blob, pk, ver, checks, pos, probe_end) ==
    IF pos >= probe_end THEN [kind |-> "ok"]
    ELSE LET r == parse_property(blob, pk, pos, ver, checks)
         IN  IF r.kind = "Panic" THEN r
             ELSE IF r.kind = "Ok" /\ r.v.some
             THEN IF r.v.v.name = "None" THEN [kind |-> "ok"]
                  ELSE ProbeFields(blob, pk, ver, checks, r.pos, probe_end)
             ELSE [kind |-> "fail"]

\* The loop over the properties of one array element.
ElementFields(blob, pk, ver, checks, pos, elem_end, fields) ==
    IF pos >= elem_end THEN POk(pos, fields)
    ELSE LET r == parse_property(blob, pk, pos, ver, checks)
         IN  IF r.kind # "Ok" THEN r
             ELSE IF ~r.v.some \/ r.v.v.name = "None" THEN POk(r.pos, fields)
             ELSE ElementFields(blob, pk, ver, checks, r.pos, elem_end,
                                Append(fields, <<r.v.v.name, r.v.v.value>>))

\* for _ in 0..count of the structured branch, with `left` elements to go.
StructElements(blob, pk, ver, checks, pos, elem_size, left) ==
    IF left = 0 THEN POk(pos, <<>>)
    ELSE LET elem_end == pos + elem_size
             e == ElementFields(blob, pk, ver, checks, pos, elem_end, <<>>)
         IN  IF e.kind # "Ok" THEN e
             ELSE LET rest == StructElements(blob, pk, ver, checks,
                                             IF e.pos < elem_end THEN elem_end
                                             ELSE e.pos,
                                             elem_size, left - 1)
                  IN  IF rest.kind # "Ok" THEN rest
                      ELSE POk(rest.pos, <<PV("Struct", e.v)>> \o rest.v)

\* parse_array with the cursor at position p, for a tag size of 0 or more.
parse_array(blob, pk, p, size, ver, checks) ==
    IF ~CanRead(blob, p, 4) THEN PErr
    ELSE
    LET count == ReadI32(blob, p)
        q == p + 4
        data_bytes == IF size < 4 THEN 0 ELSE size - 4
    IN  IF count < 0 THEN POk(q, PV("Array", <<>>))
        ELSE IF count = 0 THEN POk(q, PV("Array", <<>>))
        ELSE IF count > 1000000
        THEN POk(IF size - 4 > 0 THEN q + size - 4 ELSE q, PV("Array", <<>>))
        ELSE IF data_bytes = 0 THEN POk(q, PV("Array", <<>>))
        ELSE IF data_bytes % count # 0
        THEN IF ~CanRead(blob, q, data_bytes) THEN PErr
             ELSE POk(q + data_bytes,
                      PV("Raw", SubSeq(blob, q + 1, q + data_bytes)))
        ELSE
        LET elem_size == data_bytes \div count
        IN  IF elem_size \in {1, 4, 8, 12, 16}
            THEN IF ~CanRead(blob, q, data_bytes) THEN PErr
                 ELSE POk(q + data_bytes,
                          PV("Array",
                             ArrayElements(blob, q, count, elem_size)))
            ELSE
            LET probe == ProbeFields(blob, pk, ver, checks, q, q + elem_size)
            IN  IF probe.kind = "Panic" THEN probe
                ELSE IF probe.kind = "ok"
                THEN LET r == StructElements(blob, pk, ver, checks, q,
                                             elem_size, count)
                     IN  IF r.kind # "Ok" THEN r
                         ELSE POk(r.pos, PV("Array", r.v))
                ELSE IF ~CanRead(blob, q, data_bytes) THEN PErr
                ELSE POk(q + data_bytes,
                         PV("Array",
                            [k \in 1..count |->
                               PV("Raw",
                                  SubSeq(blob, q + elem_size * (k - 1) + 1,
                                         q + elem_size * k))]))

\* The while loop of parse_struct's last arm.
StructFields(blob, pk, ver, checks, pos, end, fields) ==
    IF pos >= end THEN POk(pos, fields)
    ELSE LET r == parse_property(blob, pk, pos, ver, checks)
         IN  IF r.kind # "Ok" THEN r
             ELSE IF ~r.v.some \/ r.v.v.name = "None" THEN POk(r.pos, fields)
             ELSE StructFields(blob, pk, ver, checks, r.pos, end,
                               Append(fields, <<r.v.v.name, r.v.v.value>>))

parse_struct(blob, pk, p, size, struct_name, ver, checks) ==
    CASE struct_name = "Guid" ->
           FixedStruct(blob, p, <<"A", "B", "C", "D">>, 4, "Int")
      [] struct_name = "Vector" ->
           FixedStruct(blob, p, <<"X", "Y", "Z">>, 4, "Float")
      [] struct_name = "Vector2D" ->
           FixedStruct(blob, p, <<"X", "Y">>, 4, "Float")
      [] struct_name \in {"Vector4", "Quat"} ->
           FixedStruct(blob, p, <<"X", "Y", "Z", "W">>, 4, "Float")
      [] struct_name = "Rotator" ->
           FixedStruct(blob, p, <<"Pitch", "Yaw", "Roll">>, 4, "Int")
      [] struct_name = "Color" ->
           FixedStruct(blob, p, <<"B", "G", "R", "A">>, 1, "Byte")
      [] struct_name = "LinearColor" ->
           FixedStruct(blob, p, <<"R", "G", "B", "A">>, 4, "Float")
      [] struct_name = "Box" ->
           IF ~CanRead(blob, p, 25) THEN PErr
           ELSE POk(p + 25,
                    PV("Struct",
                       <<<<"Min", PV("Struct",
                                     ReadFields(blob, p, <<"X", "Y", "Z">>,
                                                4, "Float"))>>,
                         <<"Max", PV("Struct",
                                     ReadFields(blob, p + 12,
                                                <<"X", "Y", "Z">>, 4,
                                                "Float"))>>,
                         <<"IsValid", PV("Byte", blob[p + 25])>>>>))
      [] OTHER ->
           \* start + size as u64 passes 2^64 when size < 0 <= start + size
           IF size < 0 /\ p + size >= 0 /\ checks
           THEN HPanic("add overflow")
           ELSE
           LET end == IF p + size < 0 THEN USIZE + p + size ELSE p + size
               r == StructFields(blob, pk, ver, checks, p, end, <<>>)
           IN  IF r.kind # "Ok" THEN r
               ELSE IF size >= 0
               THEN POk(IF r.pos - p < size THEN p + size ELSE r.pos,
                        PV("Struct", r.v))
               \* seek(Current(size - consumed)) to start + size
               ELSE IF p + size < 0 THEN PErr
               ELSE POk(p + size, PV("Struct", r.v))

\* parse_property from the value on.
PropertyValueAt(blob, pk, ver, checks, tag, bool_val, value_start) ==
    LET ty == tag.prop_type
        size == tag.size
        value ==
          CASE ty \in {"IntProperty", "ObjectProperty", "ComponentProperty",
                       "InterfaceProperty", "ClassProperty"} ->
                 IF ~CanRead(blob, value_start, 4) THEN PErr
                 ELSE POk(value_start + 4,
                          PV(IF ty = "IntProperty" THEN "Int" ELSE "Object",
                             ReadI32(blob, value_start)))
            [] ty = "FloatProperty" ->
                 IF ~CanRead(blob, value_start, 4) THEN PErr
                 ELSE POk(value_start + 4,
                          PV("Float", ReadU32(blob, value_start)))
            [] ty = "BoolProperty" -> POk(value_start, PV("Bool", bool_val))
            [] ty = "ByteProperty" ->
                 IF tag.enum_name.some
                 THEN IF ~CanRead(blob, value_start, 8) THEN PErr
                      ELSE POk(value_start + 8,
                               PV("Name", read_fname(blob, value_start)))
                 ELSE IF ~CanRead(blob, value_start, 1) THEN PErr
                      ELSE POk(value_start + 1,
                               PV("Byte", blob[value_start + 1]))
            [] ty = "NameProperty" ->
                 IF ~CanRead(blob, value_start, 8) THEN PErr
                 ELSE POk(value_start + 8,
                          PV("Name", read_fname(blob, value_start)))
            [] ty = "StrProperty" ->
                 LET s == read_string(SubSeq(blob, value_start + 1,
                                             Len(blob)))
                 IN  IF s.kind # "Ok" THEN PErr
                     ELSE POk(value_start + s.consumed, PV("String", s.v))
            [] ty = "ArrayProperty" ->
                 parse_array(blob, pk, value_start, size, ver, checks)
            [] ty = "StructProperty" ->
                 parse_struct(blob, pk, value_start, size,
                              IF tag.struct_name.some THEN tag.struct_name.v
                              ELSE "Unknown",
                              ver, checks)
            [] ty = "DelegateProperty" ->
                 IF ~CanRead(blob, value_start, 12) THEN PErr
                 ELSE POk(value_start + 12,
                          PV("Struct",
                             <<<<"Object",
                                 PV("Object", ReadI32(blob, value_start))>>,
                               <<"Function",
                                 PV("Name",
                                    read_fname(blob, value_start + 4))>>>>))
            [] OTHER ->
                 \* MapProperty: vec![0u8; size as usize]
                 IF size < 0 THEN HPanic("capacity overflow")
                 ELSE IF ~CanRead(blob, value_start, size) THEN PErr
                 ELSE POk(value_start + size,
                          PV("Raw", SubSeq(blob, value_start + 1,
                                           value_start + size)))
    IN  IF value.kind # "Ok" THEN value
        ELSE
        LET prop == Some([tag EXCEPT !.value = value.v])
        IN  IF ty # "BoolProperty" /\ value.pos - value_start # size
               /\ ty \notin {"ArrayProperty", "StructProperty", "StrProperty",
                             "DelegateProperty", "MapProperty"}
            \* r.seek(SeekFrom::Start(value_start + size as u64))
            THEN IF size < 0 /\ value_start + size >= 0 /\ checks
                 THEN HPanic("add overflow")
                 ELSE POk(IF value_start + size < 0
                          THEN USIZE + value_start + size
                          ELSE value_start + size, prop)
            ELSE POk(value.pos, prop)

\* parse_property after the type name: the size, the array index and the
\* fields of the tag that depend on the type.
PropertyTagAt(blob, pk, ver, checks, prop_name, prop_type, p2) ==
    IF ~CanRead(blob, p2, 8) THEN PErr
    ELSE
    LET tag == [name |-> prop_name, prop_type |-> prop_type,
                size |-> ReadI32(blob, p2),
                array_index |-> ReadI32(blob, p2 + 4),
                value |-> PV("None", 0), enum_name |-> None,
                struct_name |-> None]
        p3 == p2 + 8
    IN  IF prop_type = "StructProperty"
        THEN IF ~CanRead(blob, p3, 8) THEN PErr
             ELSE PropertyValueAt(blob, pk, ver, checks,
                    [tag EXCEPT !.struct_name =
                                   resolve_fname(read_fname(blob, p3), pk)],
                    FALSE, p3 + 8)
        ELSE IF prop_type = "BoolProperty"
        THEN IF ver >= VER_PROPERTYTAG_BOOL_OPTIMIZATION
             THEN IF ~CanRead(blob, p3, 1) THEN PErr
                  ELSE PropertyValueAt(blob, pk, ver, checks, tag,
                                       blob[p3 + 1] # 0, p3 + 1)
             ELSE IF ~CanRead(blob, p3, 4) THEN PErr
                  ELSE PropertyValueAt(blob, pk, ver, checks, tag,
                                       ReadU32(blob, p3)
                                         # [lo |-> 0, hi |-> 0],
                                       p3 + 4)
        ELSE IF prop_type = "ByteProperty"
                /\ ver >= VER_BYTEPROP_SERIALIZE_ENUM
        THEN IF ~CanRead(blob, p3, 8) THEN PErr
             ELSE LET en == resolve_fname(read_fname(blob, p3), pk)
                  IN  PropertyValueAt(blob, pk, ver, checks,
                        [tag EXCEPT !.enum_name =
                                       IF en = Some("None") THEN None
                                       ELSE en],
                        FALSE, p3 + 8)
        ELSE PropertyValueAt(blob, pk, ver, checks, tag, FALSE, p3)

parse_property(blob, pk, name_pos, ver, checks) ==
    IF name_pos + 8 > Len(blob) THEN POk(name_pos, None)
    ELSE
    LET prop_fname == read_fname(blob, name_pos)
        p1 == name_pos + 8
    IN  IF ~Has(pk.name_table, prop_fname.name_index) THEN POk(p1, None)
        ELSE
        LET prop_name == resolve_fname(prop_fname, pk).v
        IN  IF prop_name = "None" THEN POk(p1, Some(NoneProperty))
            ELSE IF ~CanRead(blob, p1, 8) THEN PErr
            ELSE
            LET type_fname == read_fname(blob, p1)
                p2 == p1 + 8
            IN  IF ~Has(pk.name_table, type_fname.name_index)
                THEN POk(p2, None)
                ELSE
                LET prop_type == resolve_fname(type_fname, pk).v
                IN  IF prop_type \notin KNOWN_TYPES THEN POk(p2, None)
                    ELSE PropertyTagAt(blob, pk, ver, checks, prop_name,
                                       prop_type, p2)


\* One pass of the while loop of get_obj_props: a property is pushed, and
\* the loop ends when parse_property gives None or the cursor has reached
\* the end of the blob (where the seek to the end has left it).
GetObjPropsStep ==
    /\ mode = "props"
    /\ r_pc = "walk"
    /\ \E r \in {parse_property(r_blob, pak, r_pos, r_ver, r_checks)} :
         IF r.kind # "Ok"
         THEN r_pc' = "panic" /\ UNCHANGED <<r_pos, r_props>>
         ELSE IF ~r.v.some
         THEN r_pc' = "done" /\ r_pos' = r.pos /\ UNCHANGED r_props
         ELSE /\ r_props' = Append(r_props, r.v.v)
              /\ IF r.pos >= Len(r_blob)
                 THEN r_pc' = "done" /\ r_pos' = Len(r_blob)
                 ELSE r_pc' = "walk" /\ r_pos' = r.pos
    /\ r_from' = r_pos
    /\ UNCHANGED <<mode, hvars, pak, nvars, pvars, svars, dvars, avars,
                   evars, zvars, r_blob, r_ver, r_checks>>

(***************************************************************************)
(* Property inputs: blobs of up to MaxProps tagged properties of the       *)
(* kinds below, laid out for the package version, with or without the      *)
(* None name after them and with or without bytes after that.              *)
(***************************************************************************)

MaxProps == 2

PropNames ==
    <<"None", "IntProperty", "BoolProperty", "ByteProperty", "NameProperty",
      "StrProperty", "ObjectProperty", "ArrayProperty", "StructProperty",
      "DelegateProperty", "MapProperty", "Foo", "Bar", "Vector", "EAxis",
      "FloatProperty">>

PropPak ==
    [name_table |-> PropNames, export_table |-> <<>>, import_table |-> <<>>]

NameIx(s) == (CHOOSE i \in DOMAIN PropNames : PropNames[i] = s) - 1

FNameBytes(s) == WriteI32(NameIx(s)) \o WriteI32(0)

TagBytes(name, type, size) ==
    FNameBytes(name) \o FNameBytes(type) \o WriteI32(size) \o WriteI32(0)

RVersions == {600, 650, 700}

IntBytes == TagBytes("Foo", "IntProperty", 4) \o WriteI32(7)

RKinds ==
    {"int", "int8", "intneg", "float", "object", "name", "str", "bool",
     "bool4", "byte", "enum", "delegate", "map", "vector", "struct",
     "arr_neg", "arr_zero", "arr_big", "arr_raw", "arr1", "arr4", "arr8",
     "arr12", "arr16", "arr_probe", "arr_noprobe", "arr_over"}

PropBytes(kind, ver) ==
    LET bool == IF ver >= VER_PROPERTYTAG_BOOL_OPTIMIZATION THEN <<1>>
                ELSE WriteI32(1)
        enum(s) == IF ver >= VER_BYTEPROP_SERIALIZE_ENUM THEN FNameBytes(s)
                   ELSE <<>>
        arr(size, count, data) ==
            TagBytes("Bar", "ArrayProperty", size) \o WriteI32(count)
            \o data
    IN  CASE kind = "int" -> IntBytes
          [] kind = "int8" ->
               TagBytes("Foo", "IntProperty", 8) \o WriteI32(7)
               \o WriteI32(9)
          [] kind = "intneg" ->
               TagBytes("Foo", "IntProperty", -4) \o WriteI32(7)
          [] kind = "float" ->
               TagBytes("Foo", "FloatProperty", 4) \o <<0, 0, 128, 63>>
          [] kind = "object" ->
               TagBytes("Foo", "ObjectProperty", 4) \o WriteI32(-2)
          [] kind = "name" ->
               TagBytes("Foo", "NameProperty", 8) \o FNameBytes("Bar")
          [] kind = "str" ->
               TagBytes("Foo", "StrProperty", 7) \o WriteI32(3)
               \o <<72, 105, 0>>
          [] kind = "bool" -> TagBytes("Foo", "BoolProperty", 0) \o bool
          [] kind = "bool4" -> TagBytes("Foo", "BoolProperty", 4) \o bool
          [] kind = "byte" ->
               TagBytes("Foo", "ByteProperty", 1) \o enum("None") \o <<5>>
          [] kind = "enum" ->
               IF ver >= VER_BYTEPROP_SERIALIZE_ENUM
               THEN TagBytes("Foo", "ByteProperty", 8) \o enum("EAxis")
                    \o FNameBytes("Bar")
               ELSE TagBytes("Foo", "ByteProperty", 1) \o <<2>>
          [] kind = "delegate" ->
               TagBytes("Foo", "DelegateProperty", 12) \o WriteI32(3)
               \o FNameBytes("Bar")
          [] kind = "map" ->
               TagBytes("Foo", "MapProperty", 3) \o <<1, 2, 3>>
          [] kind = "vector" ->
               TagBytes("Foo", "StructProperty", 12) \o FNameBytes("Vector")
               \o Fillers(1, 3)
          [] kind = "struct" ->
               TagBytes("Foo", "StructProperty", Len(IntBytes) + 8 + 4)
               \o FNameBytes("Bar") \o IntBytes \o FNameBytes("None")
               \o Filler(9)
          [] kind = "arr_neg" -> arr(12, -1, Fillers(1, 2))
          [] kind = "arr_zero" -> arr(4, 0, <<>>)
          [] kind = "arr_big" -> arr(8, 2000000, Filler(1))
          [] kind = "arr_raw" -> arr(9, 2, <<1, 2, 3, 4, 5>>)
          [] kind = "arr1" -> arr(6, 2, <<1, 2>>)
          [] kind = "arr4" -> arr(12, 2, WriteI32(3) \o WriteI32(4))
          [] kind = "arr8" -> arr(12, 1, FNameBytes("Bar"))
          [] kind = "arr12" -> arr(16, 1, Fillers(1, 3))
          [] kind = "arr16" -> arr(20, 1, Fillers(1, 4))
          [] kind = "arr_probe" ->
               arr(4 + Len(IntBytes) + 8, 1, IntBytes \o FNameBytes("None"))
          [] kind = "arr_noprobe" -> arr(9, 1, <<255, 255, 255, 255, 5>>)
          [] OTHER ->
               \* two elements of 18 bytes holding one property of 28 and
               \* the None name
               arr(4 + 36, 2, IntBytes \o FNameBytes("None"))

PropBlobs(ver) ==
    UNION {{Flatten([i \in 1..n |-> PropBytes(ks[i], ver)]) \o term \o rest :
              ks \in [1..n -> RKinds],
              term \in {<<>>, FNameBytes("None")},
              rest \in {<<>>, <<1, 2, 3>>, IntBytes}} :
           n \in 0..MaxProps}

PropsInit ==
    /\ mode = "props"
    /\ r_ver \in RVersions
    /\ r_blob \in PropBlobs(r_ver)
    /\ r_checks \in BOOLEAN
    /\ r_pc = "walk"
    /\ r_pos = 0
    /\ r_from = 0
    /\ r_props = <<>>
    /\ pak = PropPak
    /\ h_pc = "idle"
    /\ h_in = <<>>
    /\ h_res = [kind |-> "None"]
    /\ h_out = <<>>
    /\ NamesIdle
    /\ PatchIdle
    /\ StringsIdle
    /\ DecompIdle
    /\ DisasmIdle
    /\ ExtractIdle
    /\ ZIdle

PropsNext == GetObjPropsStep

SpecProps == PropsInit /\ [][PropsNext]_vars


\* parse_property has been called at r_from.
Walked == mode = "props" /\ (r_pc # "walk" \/ r_props # <<>>)

\* The type named by the property tag at position p, "" when the bytes at
\* p are not a tag with a name other than None.
TagType(p) ==
    IF p + 24 > Len(r_blob) THEN ""
    ELSE LET name == resolve_fname(read_fname(r_blob, p), pak)
             type == resolve_fname(read_fname(r_blob, p + 8), pak)
         IN  IF ~name.some \/ name.v = "None" \/ ~type.some THEN ""
             ELSE type.v

TagSize(p) == ReadI32(r_blob, p + 16)

\* Where the value of the property tagged at p starts: after the tag and
\* the fields the tag carries for its type.
ValueStart(p) ==
    p + 24
    + (CASE TagType(p) = "StructProperty" -> 8
         [] TagType(p) = "BoolProperty" ->
              IF r_ver >= VER_PROPERTYTAG_BOOL_OPTIMIZATION THEN 1 ELSE 4
         [] TagType(p) = "ByteProperty" ->
              IF r_ver >= VER_BYTEPROP_SERIALIZE_ENUM THEN 8 ELSE 0
         [] OTHER -> 0)

\* C16: whenever parse_array returns a value for an ArrayProperty of tag
\* size `size`, the cursor is at start + size, start being the position of
\* the count.
C16_ArrayWalkPosition ==
    (Walked /\ TagType(r_from) = "ArrayProperty") =>
      LET start == ValueStart(r_from)
          r == parse_array(r_blob, pak, start, TagSize(r_from), r_ver,
                           r_checks)
      IN  r.kind = "Ok" => r.pos = start + TagSize(r_from)

FixedSizeTypes ==
    {"IntProperty", "FloatProperty", "BoolProperty", "ByteProperty",
     "NameProperty", "ObjectProperty", "ComponentProperty",
     "InterfaceProperty", "ClassProperty"}

\* C17: when parse_property returns a property of a fixed-size type, the
\* cursor is at value_start + size.
C17_FixedSizePosition ==
    (Walked /\ TagType(r_from) \in FixedSizeTypes) =>
      LET r == parse_property(r_blob, pak, r_from, r_ver, r_checks)
      IN  (r.kind = "Ok" /\ r.v.some) =>
             r.pos = ValueStart(r_from) + TagSize(r_from)

\* The properties from position p up to the first whose name is None, or
\* up to where no property can be read, none starting at `end` or later.
RECURSIVE Preceding(_, _, _)
Preceding(p, end, fuel) ==
    IF fuel = 0 \/ p >= end THEN <<>>
    ELSE LET r == parse_property(r_blob, pak, p, r_ver, r_checks)
         IN  IF r.kind # "Ok" THEN <<>>
             ELSE IF ~r.v.some \/ r.v.v.name = "None" THEN <<>>
             ELSE <<r.v.v>> \o Preceding(r.pos, end, fuel - 1)

FixedStructs ==
    {"Guid", "Vector", "Vector2D", "Vector4", "Quat", "Rotator", "Color",
     "LinearColor", "Box"}

\* C18: the list get_obj_props returns holds the properties in front of
\* the first property named None and nothing else, and so do the fields of
\* a struct parsed by parse_struct.
C18_StopsAtNone ==
    /\ (mode = "props" /\ r_pc = "done") =>
          r_props = Preceding(0, Len(r_blob), Len(r_blob))
    /\ (Walked /\ TagType(r_from) = "StructProperty") =>
          LET r == parse_property(r_blob, pak, r_from, r_ver, r_checks)
              vs == ValueStart(r_from)
              pre == Preceding(vs, vs + TagSize(r_from), Len(r_blob))
          IN  (r.kind = "Ok" /\ r.v.some /\ TagSize(r_from) >= 0
               /\ (r.v.v.struct_name.some =>
                     r.v.v.struct_name.v \notin FixedStructs)) =>
                 r.v.v.value.v
                   = [k \in 1..Len(pre) |-> <<pre[k].name, pre[k].value>>]


(***************************************************************************)
(* Script disassembly (scriptdisasm.rs).  Statements are TLA+ strings.     *)
(* The opcodes whose text formats an f32 or the bytes of a string          *)
(* (FloatConst 0x1E, StringConst 0x1F, VectorConst 0x23,                   *)
(* UnicodeStringConst 0x34) are not decoded here: the scripts of the       *)
(* model do not hold them.                                                 *)
(***************************************************************************)

HexDigit(d) == SubSeq("0123456789ABCDEF", d + 1, d + 1)

\* {:0wX}
RECURSIVE HexPad(_, _)
HexPad(n, w) ==
    IF n < 16 /\ w <= 1 THEN HexDigit(n)
    ELSE HexPad(n \div 16, w - 1) \o HexDigit(n % 16)

StartsWith(s, prefix) ==
    Len(s) >= Len(prefix) /\ SubSeq(s, 1, Len(prefix)) = prefix

RECURSIVE Join(_, _)
Join(ss, sep) ==
    IF ss = <<>> THEN ""
    ELSE IF Len(ss) = 1 THEN ss[1]
    ELSE ss[1] \o sep \o Join(Tail(ss), sep)

\* scriptdisasm.rs read_fname where 8 bytes can be read.
script_read_fname(script, pk, p) ==
    LET idx == ReadI32(script, p)
        inst == ReadI32(script, p + 4)
        name == IF Has(pk.name_table, idx) THEN Get(pk.name_table, idx)
                ELSE "Name[" \o ToString(idx) \o "]"
    IN  IF inst > 0 THEN name \o "_" \o ToString(inst) ELSE name

resolve_obj_ref(idx, pk) ==
    IF idx = 0 THEN "None"
    ELSE IF idx > 0 /\ Has(pk.export_table, idx - 1)
    THEN LET e == Get(pk.export_table, idx - 1)
         IN  IF Has(pk.name_table, e.object_name.name_index)
             THEN Get(pk.name_table, e.object_name.name_index)
             ELSE "Export[" \o ToString(idx) \o "]"
    ELSE IF idx < 0 /\ Has(pk.import_table, (-idx) - 1)
    THEN LET i == Get(pk.import_table, (-idx) - 1)
         IN  IF Has(pk.name_table, i.object_name.name_index)
             THEN Get(pk.name_table, i.object_name.name_index)
             ELSE "Import[" \o ToString(idx) \o "]"
    ELSE "ObjRef[" \o ToString(idx) \o "]"

cast_name(b) ==
    CASE b = 54 -> "InterfaceToObject" [] b = 55 -> "InterfaceToString"
      [] b = 56 -> "InterfaceToBool" [] b = 57 -> "RotatorToVector"
      [] b = 58 -> "ByteToInt" [] b = 59 -> "ByteToBool"
      [] b = 60 -> "ByteToFloat" [] b = 61 -> "IntToByte"
      [] b = 62 -> "IntToBool" [] b = 63 -> "IntToFloat"
      [] b = 64 -> "BoolToByte" [] b = 65 -> "BoolToInt"
      [] b = 66 -> "BoolToFloat" [] b = 67 -> "FloatToByte"
      [] b = 68 -> "FloatToInt" [] b = 69 -> "FloatToBool"
      [] b = 70 -> "ObjectToInterface" [] b = 71 -> "ObjectToBool"
      [] b = 72 -> "NameToBool" [] b = 73 -> "StringToByte"
      [] b = 74 -> "StringToInt" [] b = 75 -> "StringToBool"
      [] b = 76 -> "StringToFloat" [] b = 77 -> "StringToVector"
      [] b = 78 -> "StringToRotator" [] b = 79 -> "VectorToBool"
      [] b = 80 -> "VectorToRotator" [] b = 81 -> "RotatorToBool"
      [] b = 82 -> "ByteToString" [] b = 83 -> "IntToString"
      [] b = 84 -> "BoolToString" [] b = 85 -> "FloatToString"
      [] b = 86 -> "ObjectToString" [] b = 87 -> "NameToString"
      [] b = 88 -> "VectorToString" [] b = 89 -> "RotatorToString"
      [] b = 90 -> "DelegateToString" [] b = 96 -> "StringToName"
      [] OTHER -> "UnknownCast"

\* The bytes ExprToken::from_byte gives Unknown that are below 0x70:
\* 0x2B, 0x4C..0x50, 0x5B..0x5F.
UnknownOpcodes == {43} \cup (76..80) \cup (91..95)

SErr == [kind |-> "Err", err |-> "failed to fill whole buffer"]

SOk(p, s) == [kind |-> "Ok", pos |-> p, s |-> s]

\* What disasm_expr reads after the opcode byte raw, in order: "i32",
\* "u16", "u8", "fname", "expr" (disasm_expr) and "params" (disasm_params).
\* Case (0x0A) and LabelTable (0x0C) read what their first operands say.
Operands(raw) ==
    CASE raw \in {0, 72, 1, 2, 3, 45, 41, 14, 29} -> <<"i32">>
      [] raw \in {67, 75} -> <<"fname", "i32">>
      [] raw \in {4, 13, 81, 54} -> <<"expr">>
      [] raw \in {58, 8, 11, 83, 22, 21, 74, 49, 48, 37, 38, 39, 40, 42, 63,
                  23} -> <<>>
      [] raw \in {6, 90} -> <<"u16">>
      [] raw = 7 -> <<"u16", "expr">>
      [] raw = 5 -> <<"expr", "u8">>
      [] raw = 9 -> <<"u16", "u8", "expr">>
      [] raw \in {15, 20, 68, 26, 16, 84, 85, 86, 70, 89, 59, 61, 60, 62} ->
           <<"expr", "expr">>
      [] raw \in {36, 44} -> <<"u8">>
      [] raw = 33 -> <<"fname">>
      [] raw = 32 -> <<"i32", "i32">>
      [] raw = 34 -> <<"i32", "i32", "i32">>
      [] raw \in {27, 55} -> <<"fname", "params">>
      [] raw = 28 -> <<"i32", "params">>
      [] raw = 66 -> <<"u8", "i32", "fname", "params">>
      [] raw \in {25, 18} -> <<"expr", "u16", "u16", "u8", "expr">>
      [] raw = 53 -> <<"i32", "i32", "u8", "u8", "expr">>
      [] raw \in {57, 87, 64, 71} -> <<"expr", "expr", "expr">>
      [] raw = 88 -> <<"expr", "expr", "u16">>
      [] raw = 47 -> <<"expr", "u16">>
      [] raw \in {46, 19, 82} -> <<"i32", "expr">>
      [] raw = 56 -> <<"u8", "expr">>
      [] raw = 17 -> <<"expr", "expr", "expr", "expr", "expr">>
      [] raw \in {50, 51} -> <<"i32", "expr", "expr">>
      [] raw = 69 -> <<"expr", "u16", "expr", "u16", "expr">>
      [] raw \in {24, 73} -> <<"u16", "expr">>
      [] raw = 65 -> <<"i32", "i32", "i32", "u8">>
      [] raw \in 96..111 -> <<"u8", "params">>
      [] raw >= 112 -> <<"params">>
      [] raw \in UnknownOpcodes -> <<>>

\* The text disasm_expr makes of the opcode at pos and its operands.
ExprText(raw, pos, o, pk) ==
    CASE raw \in {0, 72, 45, 41} -> resolve_obj_ref(o[1], pk)
      [] raw = 1 -> "self." \o resolve_obj_ref(o[1], pk)
      [] raw = 2 -> "Default." \o resolve_obj_ref(o[1], pk)
      [] raw = 3 -> "StateVar(" \o resolve_obj_ref(o[1], pk) \o ")"
      [] raw \in {67, 75} ->
           "delegate<" \o o[1] \o "," \o resolve_obj_ref(o[2], pk) \o ">"
      [] raw = 4 -> IF o[1] = "Nothing" THEN "return" ELSE "return " \o o[1]
      [] raw = 58 -> "return /*nothing*/"
      [] raw = 8 -> "stop"
      [] raw = 11 -> "Nothing"
      [] raw = 83 -> "// end of script"
      [] raw = 22 -> "/*EndParms*/"
      [] raw = 21 -> "/*EndParmValue*/"
      [] raw = 74 -> "/*EmptyParm*/"
      [] raw = 49 -> "IteratorNext"
      [] raw = 48 -> "IteratorPop"
      [] raw = 6 -> "goto 0x" \o HexPad(o[1], 4)
      [] raw = 7 -> "if (!" \o o[2] \o ") goto 0x" \o HexPad(o[1], 4)
      [] raw = 90 -> "if (!Editor) goto 0x" \o HexPad(o[1], 4)
      [] raw = 13 -> "goto " \o o[1]
      [] raw = 5 -> "switch (" \o o[1] \o ")"
      [] raw = 9 ->
           "assert(" \o o[3] \o ") /* line " \o ToString(o[1]) \o " */"
      [] raw \in {15, 20, 68} -> o[1] \o " = " \o o[2]
      [] raw = 14 -> "/*EatReturn*/"
      [] raw \in {29, 36, 44} -> ToString(o[1])
      [] raw = 37 -> "0"
      [] raw = 38 -> "1"
      [] raw = 39 -> "true"
      [] raw = 40 -> "false"
      [] raw \in {42, 63} -> "None"
      [] raw = 23 -> "self"
      [] raw = 33 -> "'" \o o[1] \o "'"
      [] raw = 32 ->
           resolve_obj_ref(o[2], pk) \o "'" \o resolve_obj_ref(o[1], pk)
           \o "' "
      [] raw = 34 ->
           "rot(" \o ToString(o[1]) \o "," \o ToString(o[2]) \o ","
           \o ToString(o[3]) \o ")"
      [] raw \in {27, 55} -> o[1] \o "(" \o o[2] \o ")"
      [] raw = 28 -> resolve_obj_ref(o[1], pk) \o "(" \o o[2] \o ")"
      [] raw = 66 ->
           resolve_obj_ref(o[2], pk) \o "." \o o[3] \o "(" \o o[4] \o ")"
      [] raw \in {25, 18} -> o[1] \o "." \o o[5]
      [] raw = 81 -> o[1]
      [] raw = 53 -> o[5] \o "." \o resolve_obj_ref(o[1], pk)
      [] raw \in {26, 16} -> o[2] \o "[" \o o[1] \o "]"
      [] raw = 54 -> o[1] \o ".Length"
      [] raw = 84 -> o[1] \o ".Add(" \o o[2] \o ")"
      [] raw = 85 -> o[1] \o ".AddItem(" \o o[2] \o ")"
      [] raw = 57 -> o[1] \o ".Insert(" \o o[2] \o ", " \o o[3] \o ")"
      [] raw = 87 -> o[1] \o ".InsertItem(" \o o[2] \o ", " \o o[3] \o ")"
      [] raw = 64 -> o[1] \o ".Remove(" \o o[2] \o ", " \o o[3] \o ")"
      [] raw = 86 -> o[1] \o ".RemoveItem(" \o o[2] \o ")"
      [] raw = 70 -> o[1] \o ".Find(" \o o[2] \o ")"
      [] raw = 71 -> o[1] \o ".Find(" \o o[2] \o ", " \o o[3] \o ")"
      [] raw = 89 -> o[1] \o ".Sort(" \o o[2] \o ")"
      [] raw = 88 -> "foreach " \o o[1] \o "(" \o o[2] \o ") "
      [] raw = 47 -> "foreach " \o o[1] \o " "
      [] raw \in {46, 19, 82} ->
           resolve_obj_ref(o[1], pk) \o "(" \o o[2] \o ")"
      [] raw = 56 -> cast_name(o[1]) \o "(" \o o[2] \o ")"
      [] raw = 17 ->
           "new(" \o o[1] \o ", " \o o[2] \o ", " \o o[3] \o ") " \o o[4]
           \o "(" \o o[5] \o ")"
      [] raw \in {50, 51} ->
           "(" \o o[2] \o (IF raw = 50 THEN " == " ELSE " != ") \o o[3]
           \o ") /*struct " \o resolve_obj_ref(o[1], pk) \o "*/"
      [] raw \in {59, 61} -> "(" \o o[1] \o " == " \o o[2] \o ")"
      [] raw \in {60, 62} -> "(" \o o[1] \o " != " \o o[2] \o ")"
      [] raw = 69 ->
           "(" \o o[1] \o " ? " \o o[3] \o " : " \o o[5] \o ")"
      [] raw = 24 -> o[2]
      [] raw = 73 -> "/*default=" \o o[2] \o "*/"
      [] raw = 65 -> ""
      [] raw \in 96..111 ->
           "Native_" \o ToString((raw % 16) * 256 + o[1]) \o "(" \o o[2]
           \o ")"
      [] raw >= 112 -> "Native_" \o ToString(raw) \o "(" \o o[1] \o ")"
      [] raw \in UnknownOpcodes ->
           "/*UNKNOWN_OPCODE 0x" \o HexPad(raw, 2) \o " @ 0x"
           \o HexPad(pos, 4) \o "*/"

\* A nested result is bound as a value -- the one element of a one-element
\* set -- and not as a LET, which is evaluated again at each use.
RECURSIVE disasm_expr(_, _, _)
RECURSIVE disasm_params(_, _, _, _)
RECURSIVE ReadOperands(_, _, _, _, _)
RECURSIVE LabelTable(_, _, _, _)

\* The operands of `shape` read from position p on, after those of o.
ReadOperands(script, pk, p, shape, o) ==
    IF shape = <<>> THEN [kind |-> "Ok", pos |-> p, o |-> o]
    ELSE
    LET k == Head(shape)
        n == CASE k = "i32" -> 4 [] k = "u16" -> 2 [] k = "u8" -> 1
               [] k = "fname" -> 8 [] OTHER -> 0
    IN  IF k \in {"expr", "params"}
        THEN CHOOSE res \in
               {IF r.kind # "Ok" THEN r
                ELSE ReadOperands(script, pk, r.pos, Tail(shape),
                                  Append(o, r.s)) :
                r \in {IF k = "expr" THEN disasm_expr(script, pk, p)
                       ELSE disasm_params(script, pk, p, <<>>)}} : TRUE
        ELSE IF p + n > Len(script) THEN SErr
        ELSE ReadOperands(script, pk, p + n, Tail(shape),
               Append(o, CASE k = "i32" -> ReadI32(script, p)
                           [] k = "u16" -> ReadU16(script, p)
                           [] k = "u8" -> script[p + 1]
                           [] OTHER -> script_read_fname(script, pk, p)))

\* The loop of the LabelTable arm, out being the text so far.
LabelTable(script, pk, p, out) ==
    IF p + 10 > Len(script) THEN SErr
    ELSE LET name == script_read_fname(script, pk, p)
             off == ReadU16(script, p + 8)
         IN  IF name = "None" THEN SOk(p + 10, out \o "*/")
             ELSE LabelTable(script, pk, p + 10,
                             out \o " " \o name \o "=0x" \o HexPad(off, 4)
                             \o ",")

disasm_expr(script, pk, pos) ==
    IF pos >= Len(script) THEN SErr
    ELSE
    LET raw == script[pos + 1]
    IN  IF raw = 10
        THEN IF pos + 3 > Len(script) THEN SErr
             ELSE IF ReadU16(script, pos + 1) = 65535
             THEN SOk(pos + 3, "default:")
             ELSE CHOOSE res \in
                    {IF v.kind # "Ok" THEN v
                     ELSE SOk(v.pos, "case " \o v.s \o ":") :
                     v \in {disasm_expr(script, pk, pos + 3)}} : TRUE
        ELSE IF raw = 12
        THEN LabelTable(script, pk, pos + 1, "/*LabelTable:")
        ELSE CHOOSE res \in
               {IF r.kind # "Ok" THEN r
                ELSE SOk(r.pos, ExprText(raw, pos, r.o, pk)) :
                r \in {ReadOperands(script, pk, pos + 1, Operands(raw),
                                    <<>>)}} : TRUE

disasm_params(script, pk, p, args) ==
    IF p >= Len(script) THEN SErr
    ELSE IF script[p + 1] = 22 THEN SOk(p + 1, Join(args, ", "))
    ELSE CHOOSE res \in
           {IF arg.kind # "Ok" THEN arg
            ELSE disasm_params(script, pk, arg.pos,
                               IF arg.s # "" /\ ~StartsWith(arg.s, "/*")
                               THEN Append(args, arg.s) ELSE args) :
            arg \in {disasm_expr(script, pk, p)}} : TRUE

\* The pass without the test for EndOfScript ahead of the statement.
DisasmStepPastEnd ==
    /\ mode = "disasm"
    /\ a_pc = "loop"
    /\ IF a_pos >= Len(a_script)
       THEN a_pc' = "done" /\ UNCHANGED <<a_pos, a_out>>
       ELSE \E r \in {disasm_expr(a_script, pak, a_pos)} :
              IF r.kind # "Ok"
              THEN /\ a_out' = Append(a_out, <<a_pos, "/*ERROR*/">>)
                   /\ a_pc' = "done"
                   /\ UNCHANGED a_pos
              ELSE /\ a_out' = IF r.s # "" THEN Append(a_out, <<a_pos, r.s>>)
                               ELSE a_out
                   /\ a_pos' = r.pos
                   /\ a_pc' = "loop"
    /\ UNCHANGED <<mode, hvars, pak, nvars, pvars, svars, dvars, rvars,
                   evars, zvars, a_script>>

\* One pass of the while loop of disasm_function.
DisasmStep ==
    /\ mode = "disasm"
    /\ a_pc = "loop"
    /\ IF a_pos >= Len(a_script) \/ a_script[a_pos + 1] = EX_EndOfScript
       THEN a_pc' = "done" /\ UNCHANGED <<a_pos, a_out>>
       ELSE \E r \in {disasm_expr(a_script, pak, a_pos)} :
              IF r.kind # "Ok"
              THEN /\ a_out' = Append(a_out,
                                      <<a_pos,
                                        "/*ERROR @ 0x" \o HexPad(a_pos, 4)
                                        \o ": " \o r.err \o "*/">>)
                   /\ a_pc' = "done"
                   /\ UNCHANGED a_pos
              ELSE /\ a_out' = IF r.s # "" THEN Append(a_out, <<a_pos, r.s>>)
                               ELSE a_out
                   /\ a_pos' = r.pos
                   /\ a_pc' = "loop"
    /\ UNCHANGED <<mode, hvars, pak, nvars, pvars, svars, dvars, rvars,
                   evars, zvars, a_script>>

(***************************************************************************)
(* Script inputs: every byte string of up to MaxScript bytes over a few    *)
(* opcodes with and without operands, three of the opcodes without a       *)
(* decoding among them.                                                    *)
(***************************************************************************)

MaxScript == 4

\* Return, Jump, Nothing, EndFunctionParms, IntConstByte, IntZero, 0x2B,
\* DebugInfo, 0x4C, EndOfScript, 0x5F, a native call.
ScriptBytes == {4, 6, 11, 22, 44, 37, 43, 65, 76, 83, 95, 112}

Scripts == UNION {[1..n -> ScriptBytes] : n \in 0..MaxScript}

DisasmPak ==
    [name_table |-> <<"None", "Foo">>,
     export_table |-> <<[object_name |-> [name_index |-> 1,
                                          name_instance |-> 0]]>>,
     import_table |-> <<>>]

DisasmInit ==
    /\ mode = "disasm"
    /\ a_script \in Scripts
    /\ a_pc = "loop"
    /\ a_pos = 0
    /\ a_out = <<>>
    /\ pak = DisasmPak
    /\ h_pc = "idle"
    /\ h_in = <<>>
    /\ h_res = [kind |-> "None"]
    /\ h_out = <<>>
    /\ NamesIdle
    /\ PatchIdle
    /\ StringsIdle
    /\ DecompIdle
    /\ PropsIdle
    /\ ExtractIdle
    /\ ZIdle

DisasmNext == DisasmStep

SpecDisasm == DisasmInit /\ [][DisasmNext]_vars

\* C19: a statement that begins at a byte without a decoding is the text
\* /*UNKNOWN_OPCODE 0xNN @ 0xPPPP*/ of that byte and offset, and it is the
\* last statement of the list.
C19_UnknownOpcodeHalts ==
    mode = "disasm" =>
      \A i \in DOMAIN a_out :
         LET pos == a_out[i][1]
             raw == a_script[pos + 1]
         IN  raw \in UnknownOpcodes =>
               /\ a_out[i][2] = "/*UNKNOWN_OPCODE 0x" \o HexPad(raw, 2)
                                \o " @ 0x" \o HexPad(pos, 4) \o "*/"
               /\ i = Len(a_out)


(***************************************************************************)
(* Script extraction run on export blobs: the net index, up to MaxTags     *)
(* property tags (sound, of negative size, of a size past 0x100000, cut    *)
(* short), with or without the None name, and then nothing, other bytes    *)
(* or a byte array of a Script's shape.                                    *)
(***************************************************************************)

MaxTags == 2

ETagKinds == {"int", "negative", "oversized", "cut"}

ETag(kind) ==
    LET tag(size) == WriteI32(1) \o WriteI32(0) \o WriteI32(2)
                     \o WriteI32(0) \o WriteI32(size) \o WriteI32(0)
    IN  CASE kind = "int" -> tag(4) \o WriteI32(7)
          [] kind = "negative" -> tag(-1)
          [] kind = "oversized" -> tag(1048577)
          [] OTHER -> WriteI32(1) \o WriteI32(0) \o WriteI32(2)

ERests ==
    {<<>>, <<1, 2, 3>>,
     WriteI32(4) \o <<37, 4, 11, 83>>,
     WriteI32(4) \o <<1, 2, 3, 4>>,
     WriteI32(0) \o WriteI32(0) \o WriteI32(5) \o <<4, 37, 83, 0, 0>>,
     WriteI32(9) \o <<4, 37, 83>>}

EBlobs ==
    UNION {{WriteI32(-1) \o Flatten([i \in 1..n |-> ETag(ks[i])]) \o term
            \o rest :
              ks \in [1..n -> ETagKinds],
              term \in {<<>>, WriteI32(0) \o WriteI32(0)},
              rest \in ERests} :
           n \in 0..MaxTags}

ExtractPak ==
    [name_table |-> <<S_None, <<"F", "o", "o">>,
                      <<"I", "n", "t">>>>,
     export_table |-> <<>>, import_table |-> <<>>]

ExtractInit ==
    /\ mode = "extract"
    /\ e_blob \in EBlobs
    /\ e_pc = "start"
    /\ e_res = None
    /\ pak = ExtractPak
    /\ h_pc = "idle"
    /\ h_in = <<>>
    /\ h_res = [kind |-> "None"]
    /\ h_out = <<>>
    /\ NamesIdle
    /\ PatchIdle
    /\ StringsIdle
    /\ DecompIdle
    /\ PropsIdle
    /\ DisasmIdle
    /\ ZIdle

\* extract_script_from_export_blob(blob, pak)
ExtractScript ==
    /\ mode = "extract"
    /\ e_pc = "start"
    /\ e_res' = extract_script_from_export_blob(e_blob, pak)
    /\ e_pc' = "done"
    /\ UNCHANGED <<mode, hvars, pak, nvars, pvars, svars, dvars, rvars,
                   avars, zvars, e_blob>>

ExtractNext == ExtractScript

SpecExtract == ExtractInit /\ [][ExtractNext]_vars

\* The walk over the tags that follow the net index fails: a tag is cut
\* short by the end of the blob, or its size is negative or above 0x100000.
RECURSIVE PrefixWalkFails(_)
PrefixWalkFails(p) ==
    IF p + 8 > Len(e_blob) THEN TRUE
    ELSE LET idx == ReadI32(e_blob, p)
         IN  IF ~Has(pak.name_table, idx)
                \/ Get(pak.name_table, idx) \in {<<>>, S_None}
             THEN FALSE
             ELSE IF p + 24 > Len(e_blob) THEN TRUE
             ELSE LET size == ReadI32(e_blob, p + 16)
                  IN  size < 0 \/ size > 1048576
                      \/ PrefixWalkFails(p + 24 + size)

\* A byte array the fallback scan accepts lies in the blob: a length of 4
\* to 256 KiB at an offset from 4 on, its bytes inside the blob, 0x53 among
\* the last 8 of them.
HasCandidate ==
    \E i \in 4..(Len(e_blob) - 5) :
       LET sz == ReadI32(e_blob, i)
       IN  /\ sz >= 4
           /\ sz <= 262144
           /\ i + 4 + sz <= Len(e_blob)
           /\ \E k \in (i + 5)..(i + 4 + sz) :
                 k > i + 4 + sz - 8 /\ e_blob[k] = EX_EndOfScript

\* C20: when the walk over the tagged properties fails and the blob holds
\* a candidate byte array, extract_script_from_export_blob returns one.
C20_ExtractionFallback ==
    (mode = "extract" /\ e_pc = "done" /\ Len(e_blob) >= 8
     /\ PrefixWalkFails(4) /\ HasCandidate) => e_res.some


(***************************************************************************)
(* The bytecode assembler (scriptcompiler.rs).  A text is a sequence of    *)
(* lines, each a string.  The mnemonics whose operand is an f32 or the     *)
(* bytes of a string (FloatConst, VectorConst, StringConst) are not        *)
(* assembled here: the texts of the model do not hold them.                *)
(***************************************************************************)

CharAt(s, i) == SubSeq(s, i, i)

IsWhitespace(c) == c \in {" ", "\t"}

RECURSIVE trim_start(_)
trim_start(s) ==
    IF Len(s) > 0 /\ IsWhitespace(CharAt(s, 1))
    THEN trim_start(SubSeq(s, 2, Len(s))) ELSE s

RECURSIVE trim_end(_)
trim_end(s) ==
    IF Len(s) > 0 /\ IsWhitespace(CharAt(s, Len(s)))
    THEN trim_end(SubSeq(s, 1, Len(s) - 1)) ELSE s

trim(s) == trim_end(trim_start(s))

\* str::split_whitespace: s from character i on, cur being the token begun.
RECURSIVE SplitFrom(_, _, _)
SplitFrom(s, i, cur) ==
    IF i > Len(s) THEN (IF cur = "" THEN <<>> ELSE <<cur>>)
    ELSE IF IsWhitespace(CharAt(s, i))
    THEN (IF cur = "" THEN <<>> ELSE <<cur>>) \o SplitFrom(s, i + 1, "")
    ELSE SplitFrom(s, i + 1, cur \o CharAt(s, i))

split_whitespace(s) == SplitFrom(s, 1, "")

\* str::trim_start_matches: every leading repetition of pat is removed.
RECURSIVE trim_start_matches(_, _)
trim_start_matches(s, pat) ==
    IF StartsWith(s, pat)
    THEN trim_start_matches(SubSeq(s, Len(pat) + 1, Len(s)), pat) ELSE s

\* str::trim_matches with a char pattern.
RECURSIVE trim_matches(_, _)
trim_matches(s, c) ==
    IF Len(s) > 0 /\ CharAt(s, 1) = c
    THEN trim_matches(SubSeq(s, 2, Len(s)), c)
    ELSE IF Len(s) > 0 /\ CharAt(s, Len(s)) = c
    THEN trim_matches(SubSeq(s, 1, Len(s) - 1), c)
    ELSE s

\* char::to_digit(radix), -1 for None.
to_digit(c, radix) ==
    LET ds == {d \in 0..(radix - 1) :
                 \/ CharAt("0123456789abcdef", d + 1) = c
                 \/ CharAt("0123456789ABCDEF", d + 1) = c}
    IN  IF ds = {} THEN -1 ELSE CHOOSE d \in ds : TRUE

ParseErr == [ok |-> FALSE, v |-> 0]

\* The digits of s from character i on, acc being the value so far (kept
\* below zero for a negative number, as the library does); a value outside
\* lo..hi is the overflow error.
RECURSIVE ParseDigits(_, _, _, _, _, _, _)
ParseDigits(s, i, radix, neg, acc, lo, hi) ==
    IF i > Len(s) THEN [ok |-> TRUE, v |-> acc]
    ELSE LET d == to_digit(CharAt(s, i), radix)
         IN  IF d < 0 THEN ParseErr
             ELSE IF neg
             THEN IF acc < (lo + d + (radix - 1)) \div radix THEN ParseErr
                  ELSE ParseDigits(s, i + 1, radix, neg, acc * radix - d,
                                   lo, hi)
             ELSE IF acc > (hi - d) \div radix THEN ParseErr
                  ELSE ParseDigits(s, i + 1, radix, neg, acc * radix + d,
                                   lo, hi)

\* <integer>::from_str_radix for a type of range lo..hi: an optional sign
\* ('-' only for a signed type), then one digit at least.
from_str_radix(s, radix, lo, hi) ==
    LET signed == lo < 0
        sign == IF Len(s) > 1 /\ (CharAt(s, 1) = "+"
                                  \/ (signed /\ CharAt(s, 1) = "-"))
                THEN 1 ELSE 0
    IN  IF Len(s) = 0 \/ s = "+" \/ s = "-" THEN ParseErr
        ELSE ParseDigits(s, sign + 1, radix, sign = 1 /\ CharAt(s, 1) = "-",
                         0, lo, hi)

parse_i32(s) == from_str_radix(s, 10, -2147483647 - 1, 2147483647)

parse_u16(s) == from_str_radix(s, 10, 0, 65535)

parse_u8(s) == from_str_radix(s, 10, 0, 255)

unwrap_or(r, dflt) == IF r.ok THEN r.v ELSE dflt

\* from_str_radix(a.trim_start_matches("0x"), 16).or_else(|_| a.parse())
\*     .unwrap_or(0)
HexThenDecimal(a, hi) ==
    LET h == from_str_radix(trim_start_matches(a, "0x"), 16, 0, hi)
    IN  IF h.ok THEN h.v ELSE unwrap_or(from_str_radix(a, 10, 0, hi), 0)

\* HashMap::get on the map a collect() built from (key, value) pairs in
\* table order: the last pair of a key is the one kept.  -1 for None.
LastIndex(keys, name) ==
    LET S == {i \in 1..Len(keys) : keys[i] = name}
    IN  IF S = {} THEN -1 ELSE (CHOOSE i \in S : \A j \in S : j <= i) - 1

ObjectNames(pk, table) ==
    [i \in 1..Len(table) |->
       IF Has(pk.name_table, table[i].object_name.name_index)
       THEN Get(pk.name_table, table[i].object_name.name_index) ELSE ""]

resolve_obj(name, pk) ==
    LET e == LastIndex(ObjectNames(pk, pk.export_table), name)
        i == LastIndex(ObjectNames(pk, pk.import_table), name)
    IN  IF name = "None" \/ name = "null" THEN 0
        ELSE IF e >= 0 THEN e + 1
        ELSE IF i >= 0 THEN -(i + 1)
        ELSE 0

emit_obj(name, pk) == WriteI32(resolve_obj(name, pk))

emit_fname(name, pk) ==
    LET idx == LastIndex(pk.name_table, name)
    IN  WriteI32(IF idx >= 0 THEN idx ELSE 0) \o WriteI32(0)

primitive_cast_byte(name) ==
    LET S == {b \in (54..90) \cup {96} : cast_name(b) = name}
    IN  IF S # {} THEN CHOOSE b \in S : TRUE
        ELSE unwrap_or(from_str_radix(trim_start_matches(name, "0x"), 16,
                                      0, 255), 0)

\* The mnemonics that emit their opcode byte and nothing else.
PlainOpcode(m) ==
    CASE m = "ReturnNothing" -> 58 [] m = "Stop" -> 8 [] m = "Nothing" -> 11
      [] m = "EndOfScript" -> 83 [] m = "EndFunctionParms" -> 22
      [] m = "Self" -> 23 [] m = "NoObject" -> 42 [] m = "True" -> 39
      [] m = "False" -> 40 [] m = "IntZero" -> 37 [] m = "IntOne" -> 38
      [] m = "IteratorNext" -> 49 [] m = "IteratorPop" -> 48
      [] m = "Let" -> 15 [] m = "LetBool" -> 20
      [] m = "DynArrayLength" -> 54 [] m = "DynArrayElement" -> 16
      [] m = "DynArrayAdd" -> 84 [] m = "DynArrayAddItem" -> 85
      [] m = "DynArrayRemove" -> 64 [] m = "DynArrayRemoveItem" -> 86
      [] m = "DynArrayInsert" -> 57 [] m = "DynArrayInsertItem" -> 87
      [] m = "DynArrayFind" -> 70 [] m = "DynArraySort" -> 89
      [] OTHER -> -1

RECURSIVE RawBytes(_)
RawBytes(args) ==
    IF args = <<>> THEN <<>>
    ELSE <<HexThenDecimal(Head(args), 255)>> \o RawBytes(Tail(args))

RECURSIVE RawI32s(_)
RawI32s(args) ==
    IF args = <<>> THEN <<>>
    ELSE WriteI32(unwrap_or(parse_i32(Head(args)), 0)) \o RawI32s(Tail(args))

\* The target operand of Jump and JumpIfNot: a label reference or a number.
JumpTarget(st, op, target, number) ==
    LET lbl == SubSeq(target, 2, Len(target))
    IN  IF StartsWith(target, "@")
        THEN IF lbl \in DOMAIN st.labels
             THEN [st EXCEPT !.out = @ \o <<op>> \o WriteU16(st.labels[lbl])]
             ELSE [st EXCEPT !.out = @ \o <<op>> \o WriteU16(57005),
                             !.fixups = Append(@, <<Len(st.out) + 1, lbl>>)]
        ELSE [st EXCEPT !.out = @ \o <<op>> \o WriteU16(number)]

\* Compiler::compile_line on the state st = [labels, fixups, out].
compile_line(st, text_line, pk) ==
    LET line == trim(text_line)
        parts == split_whitespace(line)
        m == parts[1]
        args == Tail(parts)
        arg(i, dflt) == IF Len(args) >= i THEN args[i] ELSE dflt
        emit(bytes) == [st EXCEPT !.out = @ \o bytes]
        int(i) == unwrap_or(parse_i32(arg(i, "0")), 0)
        v == int(1)
    IN  IF line = "" \/ StartsWith(line, "//") \/ StartsWith(line, "#")
        THEN st
        ELSE IF StartsWith(line, "@")
        THEN [st EXCEPT !.labels =
                MapInsert(@, trim(SubSeq(line, 2, Len(line))),
                          Len(st.out) % 65536)]
        ELSE
        CASE m \in {"LocalVariable", "LocalVar"} ->
               emit(<<0>> \o emit_obj(arg(1, "None"), pk))
          [] m \in {"InstanceVariable", "InstanceVar"} ->
               emit(<<1>> \o emit_obj(arg(1, "None"), pk))
          [] m \in {"DefaultVariable", "DefaultVar"} ->
               emit(<<2>> \o emit_obj(arg(1, "None"), pk))
          [] m = "Return" ->
               emit(IF arg(1, "") = "Nothing" THEN <<4, 11>> ELSE <<4>>)
          [] PlainOpcode(m) >= 0 -> emit(<<PlainOpcode(m)>>)
          [] m = "Jump" ->
               JumpTarget(st, 6, arg(1, "0"),
                          HexThenDecimal(arg(1, "0"), 65535))
          [] m = "JumpIfNot" ->
               JumpTarget(st, 7, arg(1, "0"),
                          unwrap_or(parse_u16(arg(1, "0")), 0))
          [] m = "IntConst" ->
               emit(IF v = 0 THEN <<37>>
                    ELSE IF v = 1 THEN <<38>>
                    ELSE IF v \in 0..255 THEN <<44, v>>
                    ELSE <<29>> \o WriteI32(v))
          [] m = "ByteConst" ->
               emit(<<36, unwrap_or(parse_u8(arg(1, "0")), 0)>>)
          [] m = "NameConst" ->
               emit(<<33>> \o emit_fname(trim_matches(arg(1, "None"), "'"),
                                         pk))
          [] m = "ObjectConst" ->
               emit(<<32>> \o emit_obj(arg(1, "None"), pk)
                    \o emit_obj(arg(2, "None"), pk))
          [] m = "RotationConst" ->
               emit(<<34>> \o WriteI32(int(1)) \o WriteI32(int(2))
                    \o WriteI32(int(3)))
          [] m = "VirtualFunction" ->
               emit(<<27>> \o emit_fname(arg(1, "None"), pk))
          [] m = "FinalFunction" ->
               emit(<<28>> \o emit_obj(arg(1, "None"), pk))
          [] m = "GlobalFunction" ->
               emit(<<55>> \o emit_fname(arg(1, "None"), pk))
          [] m \in {"DynamicCast", "Cast"} ->
               emit(<<46>> \o emit_obj(arg(1, "None"), pk))
          [] m = "PrimitiveCast" ->
               emit(<<56, primitive_cast_byte(arg(1, "0x3A"))>>)
          [] m \in {"RawByte", "DB"} -> emit(RawBytes(args))
          [] m \in {"RawI32", "DW"} -> emit(RawI32s(args))
          [] OTHER -> st

\* patch_u16 writing the low byte of the value only.
patch_u16_low_byte(out, slot, value) ==
    [i \in 1..Len(out) |-> IF i = slot + 1 THEN value % 256 ELSE out[i]]

\* Compiler::patch_u16
patch_u16(out, slot, value) ==
    [i \in 1..Len(out) |->
       IF i = slot + 1 THEN value % 256
       ELSE IF i = slot + 2 THEN value \div 256
       ELSE out[i]]

\* Compiler::apply_fixups over the fixups taken from the state.
RECURSIVE apply_fixups(_, _, _)
apply_fixups(out, labels, fixups) ==
    IF fixups = <<>> THEN out
    ELSE LET slot == Head(fixups)[1]
             lbl == Head(fixups)[2]
         IN  apply_fixups(IF lbl \in DOMAIN labels
                          THEN patch_u16(out, slot, labels[lbl]) ELSE out,
                          labels, Tail(fixups))

(***************************************************************************)
(* Compiler::compile_text, one line per step and the fix-ups at the end.   *)
(***************************************************************************)

\* One pass of the loop over text.lines().
CompileLine ==
    /\ mode = "compile"
    /\ c_pc = "lines"
    /\ c_k < Len(c_text)
    /\ \E st \in {compile_line([labels |-> c_labels, fixups |-> c_fixups,
                                out |-> c_out], c_text[c_k + 1], pak)} :
         /\ c_labels' = st.labels
         /\ c_fixups' = st.fixups
         /\ c_out' = st.out
    /\ c_k' = c_k + 1
    /\ UNCHANGED <<mode, hvars, pak, nvars, pvars, svars, dvars, rvars,
                   avars, evars, qvars, fvars, bvars, c_pc, c_text>>

\* The end of the loop: apply_fixups, and the bytes are returned.
CompileFinish ==
    /\ mode = "compile"
    /\ c_pc = "lines"
    /\ c_k = Len(c_text)
    /\ c_out' = apply_fixups(c_out, c_labels, c_fixups)
    /\ c_fixups' = <<>>
    /\ c_pc' = "done"
    /\ UNCHANGED <<mode, hvars, pak, nvars, pvars, svars, dvars, rvars,
                   avars, evars, qvars, fvars, bvars, c_text, c_k, c_labels>>

MaxLines == 3

\* Label definitions, jumps by label and by number, numeric operands in
\* decimal and in hexadecimal, and lines that emit one byte or none.
CompileLines ==
    {"@A", "@B", "  @ A", "Jump @A", "Jump @B", "JumpIfNot @A",
     "JumpIfNot @B", "Jump 10", "Jump 0x10", "JumpIfNot 10",
     "JumpIfNot 0x10", "IntConst 300", "IntConst 0x12C", "ByteConst 7",
     "ByteConst 0x7", "Nothing", "// note", "Let"}

CompileTexts == UNION {[1..n -> CompileLines] : n \in 0..MaxLines}

CompileInit ==
    /\ mode = "compile"
    /\ c_pc = "lines"
    /\ c_text \in CompileTexts
    /\ c_k = 0
    /\ c_labels = <<>>
    /\ c_fixups = <<>>
    /\ c_out = <<>>
    /\ pak = DisasmPak
    /\ h_pc = "idle"
    /\ h_in = <<>>
    /\ h_res = [kind |-> "None"]
    /\ h_out = <<>>
    /\ NamesIdle
    /\ PatchIdle
    /\ StringsIdle
    /\ DecompIdle
    /\ PropsIdle
    /\ DisasmIdle
    /\ ExtractIdle
    /\ LoadsIdle
    /\ WIdle

CompileNext == CompileLine \/ CompileFinish

SpecCompile == CompileInit /\ [][CompileNext]_vars

\* The words of line j of the text.
Words(j) == split_whitespace(trim(c_text[j]))

IsLabelLine(j) == StartsWith(trim(c_text[j]), "@")

LabelOf(j) == trim(SubSeq(trim(c_text[j]), 2, Len(trim(c_text[j]))))

\* Line j is a Jump or JumpIfNot whose target is written @label.
IsLabelJump(j) ==
    /\ ~IsLabelLine(j)
    /\ Len(Words(j)) >= 2
    /\ Words(j)[1] \in {"Jump", "JumpIfNot"}
    /\ StartsWith(Words(j)[2], "@")

TargetOf(j) == SubSeq(Words(j)[2], 2, Len(Words(j)[2]))

\* The number of bytes the first k lines emit.
RECURSIVE EmittedBy(_)
EmittedBy(k) ==
    IF k = 0 THEN 0
    ELSE EmittedBy(k - 1)
         + Len(compile_line([labels |-> <<>>, fixups |-> <<>>, out |-> <<>>],
                            c_text[k], pak).out)

DefinitionsOf(lbl) ==
    {i \in 1..Len(c_text) : IsLabelLine(i) /\ LabelOf(i) = lbl}

Denotes(lit) ==
    IF StartsWith(lit, "0x")
    THEN LET h == from_str_radix(SubSeq(lit, 3, Len(lit)), 16, 0, 65535)
         IN  IF h.ok THEN h.v ELSE -1
    ELSE LET d == from_str_radix(lit, 10, 0, 65535)
         IN  IF d.ok THEN d.v ELSE -1

\* The value the bytes emitted for a numeric line hold.
EmittedValue(bytes) ==
    CASE bytes = <<37>> -> 0
      [] bytes = <<38>> -> 1
      [] Len(bytes) = 2 /\ bytes[1] \in {44, 36} -> bytes[2]
      [] Len(bytes) = 3 /\ bytes[1] \in {6, 7} -> ReadU16(bytes, 1)
      [] Len(bytes) = 5 /\ bytes[1] = 29 -> ReadI32(bytes, 1)
      [] OTHER -> -1

IsNumericLine(j) ==
    /\ ~IsLabelLine(j)
    /\ Len(Words(j)) >= 2
    /\ Words(j)[1] \in {"IntConst", "ByteConst", "Jump", "JumpIfNot"}
    /\ Denotes(Words(j)[2]) >= 0
    /\ Words(j)[1] = "ByteConst" => Denotes(Words(j)[2]) <= 255

\* C24: the bytes emitted for IntConst, ByteConst, Jump and JumpIfNot with a
\* numeric operand hold the number the operand denotes, in decimal and in
\* 0x-prefixed hexadecimal alike.
C24_NumericLiterals ==
    (mode = "compile" /\ c_pc = "done") =>
      \A j \in 1..Len(c_text) :
        IsNumericLine(j) =>
          EmittedValue(SubSeq(c_out, EmittedBy(j - 1) + 1, EmittedBy(j)))
            = Denotes(Words(j)[2])

(***************************************************************************)
(* Disassembly fed back to the assembler: disasm_function, print_disasm    *)
(* and Compiler::compile_text against the same package.                    *)
(***************************************************************************)

\* The while loop of disasm_function from the cursor position pos on.
RECURSIVE DisasmFrom(_, _, _, _)
DisasmFrom(script, pk, pos, out) ==
    IF pos >= Len(script) \/ script[pos + 1] = EX_EndOfScript THEN out
    ELSE LET r == disasm_expr(script, pk, pos)
         IN  IF r.kind # "Ok"
             THEN Append(out, <<pos, "/*ERROR @ 0x" \o HexPad(pos, 4) \o ": "
                                     \o r.err \o "*/">>)
             ELSE DisasmFrom(script, pk, r.pos,
                             IF r.s # "" THEN Append(out, <<pos, r.s>>)
                             ELSE out)

disasm_function(script, pk) == DisasmFrom(script, pk, 0, <<>>)

\* print_disasm, as the lines of the string it returns: one per statement
\* (no statement of the model holds a line break).
print_disasm(stmts) ==
    [i \in 1..Len(stmts) |->
       "/* 0x" \o HexPad(stmts[i][1], 4) \o " */  " \o stmts[i][2] \o ";"]

RECURSIVE CompileLinesFrom(_, _, _)
CompileLinesFrom(st, text, pk) ==
    IF text = <<>> THEN st
    ELSE CompileLinesFrom(compile_line(st, Head(text), pk), Tail(text), pk)

\* Compiler::compile_text on a new Compiler.
compile_text(text, pk) ==
    LET st == CompileLinesFrom([labels |-> <<>>, fixups |-> <<>>,
                                out |-> <<>>], text, pk)
    IN  apply_fixups(st.out, st.labels, st.fixups)

RoundTripDisasm ==
    /\ mode = "roundtrip"
    /\ a_pc = "loop"
    /\ a_out' = disasm_function(a_script, pak)
    /\ a_pc' = "done"
    /\ UNCHANGED <<mode, hvars, pak, nvars, pvars, svars, dvars, rvars,
                   evars, zvars, a_script, a_pos>>

RoundTripPrint ==
    /\ mode = "roundtrip"
    /\ a_pc = "done"
    /\ c_pc = "idle"
    /\ c_text' = print_disasm(a_out)
    /\ c_pc' = "lines"
    /\ UNCHANGED <<mode, hvars, pak, nvars, pvars, svars, dvars, rvars,
                   avars, evars, qvars, fvars, bvars, c_k, c_labels, c_fixups, c_out>>

RoundTripCompile ==
    /\ mode = "roundtrip"
    /\ c_pc = "lines"
    /\ c_out' = compile_text(c_text, pak)
    /\ c_k' = Len(c_text)
    /\ c_pc' = "done"
    /\ UNCHANGED <<mode, hvars, pak, nvars, pvars, svars, dvars, rvars,
                   avars, evars, qvars, fvars, bvars, c_text, c_labels, c_fixups>>

MaxStmts == 2

\* Statements of the canonical subset, as bytes: a local and an instance
\* variable, literals, jumps, calls with their EndFunctionParms, Return,
\* Let, DynArrayLength and Context (the object is export 1, the name is
\* name 1 of the package).
CanonicalStmts ==
    {<<0, 1, 0, 0, 0>>,
     <<1, 1, 0, 0, 0>>,
     <<37>>,
     <<44, 7>>,
     <<29, 44, 1, 0, 0>>,
     <<6, 0, 0>>,
     <<7, 0, 0, 39>>,
     <<27, 1, 0, 0, 0, 0, 0, 0, 0, 22>>,
     <<28, 1, 0, 0, 0, 38, 22>>,
     <<4, 11>>,
     <<4, 37>>,
     <<15, 0, 1, 0, 0, 0, 38>>,
     <<54, 0, 1, 0, 0, 0>>,
     <<25, 23, 0, 0, 0, 0, 0, 1, 1, 0, 0, 0>>}

CanonicalScripts ==
    {Flatten(ss) \o tail :
       ss \in UNION {[1..n -> CanonicalStmts] : n \in 0..MaxStmts},
       tail \in {<<>>, <<EX_EndOfScript>>}}

RoundTripInit ==
    /\ mode = "roundtrip"
    /\ a_script \in CanonicalScripts
    /\ a_pc = "loop"
    /\ a_pos = 0
    /\ a_out = <<>>
    /\ pak = DisasmPak
    /\ h_pc = "idle"
    /\ h_in = <<>>
    /\ h_res = [kind |-> "None"]
    /\ h_out = <<>>
    /\ NamesIdle
    /\ PatchIdle
    /\ StringsIdle
    /\ DecompIdle
    /\ PropsIdle
    /\ ExtractIdle
    /\ ZIdle

RoundTripNext == RoundTripDisasm \/ RoundTripPrint \/ RoundTripCompile

SpecRoundTrip == RoundTripInit /\ [][RoundTripNext]_vars

\* The positions (1-based) of the operand bytes of the jumps that are
\* statements of the script: what a renaming of labels may change.
JumpOperandBytes ==
    UNION {{a_out[i][1] + 2, a_out[i][1] + 3} :
             i \in {k \in DOMAIN a_out : a_script[a_out[k][1] + 1] \in {6, 7}}}

\* C22: the bytes assembled from the text printed for a script of the
\* canonical subset are the script, byte for byte outside the operands of
\* its jumps.
C22_AssembleDisasm ==
    (mode = "roundtrip" /\ c_pc = "done") =>
      /\ Len(c_out) = Len(a_script)
      /\ \A i \in 1..Len(a_script) :
           i \notin JumpOperandBytes => c_out[i] = a_script[i]

(***************************************************************************)
(* Two loads of two package files in one working directory, interleaved    *)
(* between their file-system calls (main.rs upk_header_cursor).  A file    *)
(* lives as long as a name or an open handle refers to it; the directory   *)
(* maps names to files.                                                    *)
(***************************************************************************)

Loads == {1, 2}

TempName == ".tmp.upk"

PathOf(p) == IF p = 1 THEN "a.upk" ELSE "b.upk"

QIdleProc == [pc |-> "open", reader |-> 0, writer |-> 0,
              hdr |-> [kind |-> "None"], dec |-> <<>>,
              res |-> [kind |-> "None"]]

QSet(p, field, val) == [q_proc EXCEPT ![p] = [@ EXCEPT ![field] = val]]

QGoto(p, pc) == QSet(p, "pc", pc)

QSorted(hdr) ==
    SortChunks(hdr.compressed_chunks, DOMAIN hdr.compressed_chunks)

\* File::open and UpkHeader::read; an uncompressed file is read whole and
\* returned.
QOpen(p) ==
    /\ mode = "loads"
    /\ q_proc[p].pc = "open"
    /\ IF q_names[PathOf(p)] = 0 THEN q_proc' = QGoto(p, "error")
       ELSE \E r \in {UpkHeaderRead(q_files[q_names[PathOf(p)]])} :
         IF r.kind = "Panic" THEN q_proc' = QGoto(p, "panic")
         ELSE IF r.kind = "Err" THEN q_proc' = QGoto(p, "error")
         ELSE IF r.hdr.compression_method = "None"
         THEN q_proc' = [q_proc EXCEPT ![p] =
                [@ EXCEPT !.pc = "loaded",
                          !.res = [kind |-> "Ok",
                                   image |-> q_files[q_names[PathOf(p)]],
                                   header |-> r.hdr]]]
         ELSE IF r.hdr.compressed_chunks_count # [hi |-> 0, lo |-> 0]
         THEN q_proc' = [q_proc EXCEPT ![p] =
                [@ EXCEPT !.pc = "compressed", !.hdr = r.hdr,
                          !.reader = q_names[PathOf(p)]]]
         ELSE q_proc' = QGoto(p, "remove")
    /\ UNCHANGED <<mode, hvars, pak, nvars, pvars, svars, dvars, rvars,
                   avars, evars, cvars, fvars, bvars, q_names, q_files, q_orig>>

\* The sort of the chunks and upk_decompress(&mut reader, ..).expect(..).
QDecompress(p) ==
    /\ mode = "loads"
    /\ q_proc[p].pc = "compressed"
    /\ \E r \in {upk_decompress(q_files[q_proc[p].reader],
                                q_proc[p].hdr.compression_method,
                                QSorted(q_proc[p].hdr))} :
         IF r.kind = "Ok"
         THEN q_proc' = [q_proc EXCEPT ![p] =
                           [@ EXCEPT !.pc = "create", !.dec = r.v]]
         ELSE q_proc' = QGoto(p, "panic")
    /\ UNCHANGED <<mode, hvars, pak, nvars, pvars, svars, dvars, rvars,
                   avars, evars, cvars, fvars, bvars, q_names, q_files, q_orig>>

\* File::create(".tmp.upk"): the file of that name is truncated, or a new
\* file gets the name.
QCreate(p) ==
    /\ mode = "loads"
    /\ q_proc[p].pc = "create"
    /\ IF q_names[TempName] # 0
       THEN /\ q_files' = [q_files EXCEPT ![q_names[TempName]] = <<>>]
            /\ q_proc' = [q_proc EXCEPT ![p] =
                            [@ EXCEPT !.pc = "write",
                                      !.writer = q_names[TempName]]]
            /\ UNCHANGED q_names
       ELSE /\ q_files' = Append(q_files, <<>>)
            /\ q_names' = [q_names EXCEPT ![TempName] = Len(q_files) + 1]
            /\ q_proc' = [q_proc EXCEPT ![p] =
                            [@ EXCEPT !.pc = "write",
                                      !.writer = Len(q_files) + 1]]
    /\ UNCHANGED <<mode, hvars, pak, nvars, pvars, svars, dvars, rvars,
                   avars, evars, cvars, fvars, bvars, q_orig>>

\* The writes through the BufWriter, from the header to the bytes after the
\* last chunk, taken as one step: they land in the file the handle refers
\* to, over what it holds.
QWrite(p) ==
    /\ mode = "loads"
    /\ q_proc[p].pc = "write"
    /\ \E r \in {RewriteFile(q_files[q_proc[p].reader], q_proc[p].hdr,
                             QSorted(q_proc[p].hdr), q_proc[p].dec)} :
         IF r.kind = "Ok"
         THEN /\ q_files' = [q_files EXCEPT ![q_proc[p].writer] =
                               r.file \o SubSeq(@, Len(r.file) + 1, Len(@))]
              /\ q_proc' = QGoto(p, "remove")
         ELSE /\ q_proc' = QGoto(p, "error")
              /\ UNCHANGED q_files
    /\ UNCHANGED <<mode, hvars, pak, nvars, pvars, svars, dvars, rvars,
                   avars, evars, cvars, fvars, bvars, q_names, q_orig>>

\* fs::remove_file(path)
QRemove(p) ==
    /\ mode = "loads"
    /\ q_proc[p].pc = "remove"
    /\ IF q_names[PathOf(p)] = 0
       THEN q_proc' = QGoto(p, "error") /\ UNCHANGED q_names
       ELSE /\ q_names' = [q_names EXCEPT ![PathOf(p)] = 0]
            /\ q_proc' = QGoto(p, "rename")
    /\ UNCHANGED <<mode, hvars, pak, nvars, pvars, svars, dvars, rvars,
                   avars, evars, cvars, fvars, bvars, q_files, q_orig>>

\* fs::rename(".tmp.upk", path), then the call of upk_header_cursor on path.
QRename(p) ==
    /\ mode = "loads"
    /\ q_proc[p].pc = "rename"
    /\ IF q_names[TempName] = 0
       THEN q_proc' = QGoto(p, "error") /\ UNCHANGED q_names
       ELSE /\ q_names' = [q_names EXCEPT ![PathOf(p)] = q_names[TempName],
                                          ![TempName] = 0]
            /\ q_proc' = QGoto(p, "open")
    /\ UNCHANGED <<mode, hvars, pak, nvars, pvars, svars, dvars, rvars,
                   avars, evars, cvars, fvars, bvars, q_files, q_orig>>

\* The package files of the two loads: uncompressed, or Lzo with one or two
\* chunks; the packages differ in version and so in every image.
QCases == {[m |-> 0, kinds |-> <<>>], [m |-> 2, kinds |-> <<"exact">>],
           [m |-> 2, kinds |-> <<"exact", "exact">>]}

QImage(p, c, trail) ==
    DImage(IF p = 1 THEN 515 ELSE 767, 2, c.m, c.kinds, FALSE, <<>>, <<>>,
           FALSE, trail)

LoadsInit ==
    /\ mode = "loads"
    /\ \E c1 \in QCases, c2 \in QCases,
          t1 \in {<<>>, DTrailer}, t2 \in {<<>>, DTrailer} :
          q_orig = <<QImage(1, c1, t1), QImage(2, c2, t2)>>
    /\ q_files = q_orig
    /\ q_names = [n \in {PathOf(1), PathOf(2), TempName} |->
                    IF n = PathOf(1) THEN 1 ELSE IF n = PathOf(2) THEN 2
                    ELSE 0]
    /\ q_proc = [p \in Loads |-> QIdleProc]
    /\ h_pc = "idle"
    /\ h_in = <<>>
    /\ h_res = [kind |-> "None"]
    /\ h_out = <<>>
    /\ pak = NoPak
    /\ NamesIdle
    /\ PatchIdle
    /\ StringsIdle
    /\ DecompIdle
    /\ PropsIdle
    /\ DisasmIdle
    /\ ExtractIdle
    /\ CompileIdle
    /\ WIdle

LoadsNext ==
    \E p \in Loads :
       \/ QOpen(p)
       \/ QDecompress(p)
       \/ QCreate(p)
       \/ QWrite(p)
       \/ QRemove(p)
       \/ QRename(p)

SpecLoads == LoadsInit /\ [][LoadsNext]_vars

\* What a load of the file gives when it runs alone: the file left at the
\* path, and the image and header returned.
AloneFile(file) ==
    LET r == UpkHeaderRead(file)
    IN  IF r.hdr.compression_method = "None" THEN file
        ELSE RewriteFile(file, r.hdr, QSorted(r.hdr),
                         upk_decompress(file, r.hdr.compression_method,
                                        QSorted(r.hdr)).v).file

AloneResult(file) ==
    [kind |-> "Ok", image |-> AloneFile(file),
     header |-> UpkHeaderRead(AloneFile(file)).hdr]

LoadEnded(p) == q_proc[p].pc \in {"loaded", "error", "panic"}

\* C23: when the two loads have ended, however their steps interleaved,
\* each has returned the image and header it returns alone and its path
\* holds the file it leaves alone.
C23_IndependentLoads ==
    (mode = "loads" /\ \A p \in Loads : LoadEnded(p)) =>
      \A p \in Loads :
        /\ q_proc[p].res = AloneResult(q_orig[p])
        /\ q_names[PathOf(p)] # 0
        /\ q_files[q_names[PathOf(p)]] = AloneFile(q_orig[p])

(***************************************************************************)
(* The three places that turn an FName into text, applied to one FName:    *)
(* UPKPak::fname_to_string (names are sequences of characters there),      *)
(* resolve_fname of the property codec and read_fname of the               *)
(* disassembler.                                                           *)
(***************************************************************************)

RenderNameTable == <<"None", "Foo">>

\* A string as the sequence of its characters.
CharsOf(s) == [i \in 1..Len(s) |-> CharAt(s, i)]

RECURSIVE StringOf(_)
StringOf(cs) == IF cs = <<>> THEN "" ELSE Head(cs) \o StringOf(Tail(cs))

RenderPak ==
    [name_table |-> RenderNameTable, export_table |-> <<>>,
     import_table |-> <<>>]

RenderPakChars ==
    [RenderPak EXCEPT !.name_table =
       [i \in 1..Len(RenderNameTable) |-> CharsOf(RenderNameTable[i])]]

RenderByPak ==
    /\ mode = "render"
    /\ "fname_to_string" \notin DOMAIN f_out
    /\ f_out' = MapInsert(f_out, "fname_to_string",
                          StringOf(fname_to_string(RenderPakChars, f_fname)))
    /\ UNCHANGED <<mode, hvars, pak, nvars, pvars, svars, dvars, rvars,
                   avars, evars, cvars, qvars, bvars, f_fname>>

RenderByProps ==
    /\ mode = "render"
    /\ "resolve_fname" \notin DOMAIN f_out
    /\ \E r \in {resolve_fname(f_fname, RenderPak)} :
         f_out' = MapInsert(f_out, "resolve_fname",
                            IF r.some THEN r.v ELSE "<none>")
    /\ UNCHANGED <<mode, hvars, pak, nvars, pvars, svars, dvars, rvars,
                   avars, evars, cvars, qvars, bvars, f_fname>>

RenderByDisasm ==
    /\ mode = "render"
    /\ "read_fname" \notin DOMAIN f_out
    /\ f_out' = MapInsert(f_out, "read_fname",
                          script_read_fname(WriteI32(f_fname.name_index)
                                            \o WriteI32(f_fname.name_instance),
                                            RenderPak, 0))
    /\ UNCHANGED <<mode, hvars, pak, nvars, pvars, svars, dvars, rvars,
                   avars, evars, cvars, qvars, bvars, f_fname>>

MaxInstance == 11

RenderInstances == {-2147483647 - 1, -1, 2147483647} \cup (0..MaxInstance)

RenderInit ==
    /\ mode = "render"
    /\ f_fname \in [name_index : 0..(Len(RenderNameTable) - 1),
                    name_instance : RenderInstances]
    /\ f_out = <<>>
    /\ h_pc = "idle"
    /\ h_in = <<>>
    /\ h_res = [kind |-> "None"]
    /\ h_out = <<>>
    /\ pak = NoPak
    /\ NamesIdle
    /\ PatchIdle
    /\ StringsIdle
    /\ DecompIdle
    /\ PropsIdle
    /\ DisasmIdle
    /\ ExtractIdle
    /\ CompileIdle
    /\ LoadsIdle
    /\ ArtifactIdle

RenderNext == RenderByPak \/ RenderByProps \/ RenderByDisasm

SpecRender == RenderInit /\ [][RenderNext]_vars

\* The text of the rule: the bare string, and for an instance n > 0 an
\* underscore and n - 1 after it.
RenderedName(fname) ==
    IF fname.name_instance > 0
    THEN RenderNameTable[fname.name_index + 1] \o "_"
         \o ToString(fname.name_instance - 1)
    ELSE RenderNameTable[fname.name_index + 1]

\* C25: each of the three renderers gives an FName of the name table the
\* bare string, followed by `_` and n - 1 when its instance n is above 0.
C25_FNameRendering ==
    mode = "render" =>
      \A k \in DOMAIN f_out : f_out[k] = RenderedName(f_fname)

(***************************************************************************)
(* The export reader and the applier's stride walk over one export table   *)
(* (upkreader.rs Export::read, scriptpatcher.rs export_serial_positions).  *)
(***************************************************************************)

\* Where the export-table loop of parse_upk reads serial_size and
\* serial_offset of each of n entries, the first entry lying at pos.
RECURSIVE ReadPositions(_, _, _, _)
ReadPositions(raw, pos, ver, n) ==
    IF n <= 0 THEN <<>>
    ELSE <<[sz_pos |-> pos + 32, off_pos |-> pos + 36]>>
         \o ReadPositions(raw, ExportRead(raw, pos, ver).next, ver, n - 1)

\* The export table is read entry by entry with Export::read.
StrideRead ==
    /\ mode = "stride"
    /\ p_pc = "start"
    /\ \E r \in {ReadExports(p_raw, p_hdr.export_offset, p_hdr.p_ver,
                             p_hdr.export_count)} :
         IF r.kind = "Ok"
         THEN /\ pak' = [pak EXCEPT !.export_table = r.table]
              /\ p_log' = ReadPositions(p_raw, p_hdr.export_offset,
                                        p_hdr.p_ver, p_hdr.export_count)
              /\ p_pc' = "read"
         ELSE /\ p_pc' = "unparsed"
              /\ UNCHANGED <<pak, p_log>>
    /\ UNCHANGED <<mode, hvars, nvars, xvars, p_raw, p_hdr, p_patches, p_i,
                   p_serial_pos, p_repl, p_out, overflow_checks>>

\* export_serial_positions(upk_raw, header) on the same bytes.
StrideWalk ==
    /\ mode = "stride"
    /\ p_pc = "read"
    /\ \E r \in {export_serial_positions(p_raw, p_hdr, overflow_checks)} :
           IF r.kind = "Ok"
           THEN p_serial_pos' = r.v /\ p_pc' = "done"
           ELSE p_pc' = "panic" /\ UNCHANGED p_serial_pos
    /\ UNCHANGED <<mode, hvars, pak, nvars, xvars, p_raw, p_hdr, p_patches,
                   p_i, p_repl, p_log, p_out, overflow_checks>>

MaxSExports == 2

MaxLegacy == 2

MaxGenCount == 2

SVersions == {500, 542, 543, 800}

\* The count the legacy component map states; a negative count is an empty
\* map to Export::read.
SLegacyCounts == {-1} \cup (0..MaxLegacy)

SGenCounts == 0..MaxGenCount

\* An export entry with lc legacy components (when the version has the
\* map) and gc generation counts.
SEntry(ver, i, lc, gc) ==
    Word(0) \o Word(0) \o Word(0) \o Word(i) \o Word(0) \o Word(0)
    \o Filler(i) \o Filler(i + 8)
    \o WriteI32(4 * i) \o WriteI32(100 + i)
    \o (IF ver < 543
        THEN WriteI32(lc) \o Fillers(30, 3 * (IF lc < 0 THEN 0 ELSE lc))
        ELSE <<>>)
    \o Filler(21) \o WriteI32(gc) \o Fillers(40, gc) \o Fillers(22, 4)
    \o Filler(26)

STables ==
    UNION {[1..n -> [lc : SLegacyCounts, gc : SGenCounts]] :
           n \in 1..MaxSExports}

SImage(ver, es, trailer) ==
    PHead(ver)
    \o Flatten([i \in 1..Len(es) |-> SEntry(ver, i, es[i].lc, es[i].gc)])
    \o trailer

StrideInit ==
    /\ mode = "stride"
    /\ \E ver \in SVersions, es \in STables, trailer \in PTrailers :
         /\ p_raw = SImage(ver, es, trailer)
         /\ p_hdr = [p_ver |-> ver, export_offset |-> Len(PHead(ver)),
                     export_count |-> Len(es)]
    /\ pak = [name_table |-> PNameTable, export_table |-> <<>>,
              import_table |-> <<>>]
    /\ overflow_checks \in BOOLEAN
    /\ p_pc = "start"
    /\ p_patches = <<>>
    /\ p_i = 0
    /\ p_serial_pos = <<>>
    /\ p_repl = <<>>
    /\ p_log = <<>>
    /\ p_out = <<>>
    /\ h_pc = "idle"
    /\ h_in = <<>>
    /\ h_res = [kind |-> "None"]
    /\ h_out = <<>>
    /\ NamesIdle
    /\ XIdle

StrideNext == StrideRead \/ StrideWalk

SpecStride == StrideInit /\ [][StrideNext]_vars

\* C26: for an export table Export::read parsed, export_serial_positions
\* returns, entry by entry, the positions serial_size and serial_offset
\* were read from.
C26_StrideAgreesWithReader ==
    (mode = "stride" /\ p_pc \in {"done", "panic"}) =>
      /\ p_pc = "done"
      /\ Len(p_serial_pos) = Len(pak.export_table)
      /\ p_serial_pos = p_log

(***************************************************************************)
(* The disassembler loop run to its end on finite slices: scripts made of  *)
(* up to MaxSegments segments, a segment being one opcode byte, a u16      *)
(* operand, a label-table entry or the label-table terminator, so that     *)
(* slices end inside an operand, inside a parameter list and inside a      *)
(* label table.                                                            *)
(***************************************************************************)

MaxSegments == 3

\* Return, Jump, Nothing, LabelTable, EndFunctionParms, IntConstByte,
\* IntZero, 0x2B, DebugInfo, EndOfScript, a native call; a u16; the label
\* Foo at 0x0010; the entry named None that ends a label table.
Segments ==
    {<<4>>, <<6>>, <<11>>, <<12>>, <<22>>, <<44>>, <<37>>, <<43>>, <<65>>,
     <<83>>, <<112>>, <<3, 0>>,
     <<1, 0, 0, 0, 0, 0, 0, 0, 16, 0>>,
     <<0, 0, 0, 0, 0, 0, 0, 0, 255, 255>>}

SegmentedScripts ==
    {Flatten(s) : s \in UNION {[1..n -> Segments] : n \in 0..MaxSegments}}

BoundedInit ==
    /\ mode = "disasm"
    /\ a_script \in SegmentedScripts
    /\ a_pc = "loop"
    /\ a_pos = 0
    /\ a_out = <<>>
    /\ pak = DisasmPak
    /\ h_pc = "idle"
    /\ h_in = <<>>
    /\ h_res = [kind |-> "None"]
    /\ h_out = <<>>
    /\ NamesIdle
    /\ PatchIdle
    /\ StringsIdle
    /\ DecompIdle
    /\ PropsIdle
    /\ ExtractIdle
    /\ ZIdle

\* disasm_function is one sequential loop: a pass that can be taken is
\* taken.
SpecDisasmFair ==
    BoundedInit /\ [][DisasmNext]_vars /\ WF_vars(DisasmStep)

\* The statement offsets so far are strictly increasing and inside the
\* slice, none is the offset of an EndOfScript byte, and once the loop has
\* stopped at an EndOfScript byte every statement lies before it.
BoundedStatements ==
    /\ \A i \in DOMAIN a_out :
         /\ a_out[i][1] >= 0
         /\ a_out[i][1] < Len(a_script)
         /\ a_script[a_out[i][1] + 1] # EX_EndOfScript
         /\ a_out[i][1] <= a_pos
         /\ \A j \in DOMAIN a_out : i < j => a_out[i][1] < a_out[j][1]
    /\ a_pos <= Len(a_script)
    /\ (a_pc = "done" /\ a_pos < Len(a_script)
        /\ a_script[a_pos + 1] = EX_EndOfScript) =>
          \A i \in DOMAIN a_out : a_out[i][1] < a_pos

\* C27: disasm_function ends on every finite slice, and the statements it
\* returns have strictly increasing offsets below the slice length, none
\* of them for a byte at or after the first EndOfScript met where a
\* statement would begin.
C27_BoundedByInput == <>(a_pc = "done") /\ []BoundedStatements

\* A label table that is never closed, after one statement: the loop has
\* ended with the statement and the error.
C27_Witness ==
    /\ mode = "disasm"
    /\ a_pc = "done"
    /\ a_script = <<11, 12, 1, 0, 0, 0, 0, 0, 0, 0, 16, 0>>
    /\ Len(a_out) = 2
    /\ a_out[1] = <<0, "Nothing">>
    /\ a_out[2][1] = 1


(***************************************************************************)
(* The patched file read back through its own export table.                *)
(***************************************************************************)

\* The position after n export entries, the first lying at pos.
RECURSIVE TableEnd(_, _, _, _)
TableEnd(raw, pos, ver, n) ==
    IF n <= 0 THEN pos
    ELSE TableEnd(raw, ExportRead(raw, pos, ver).next, ver, n - 1)

\* The export table lies before the smallest serial_offset.
TableBeforeData ==
    \A i \in DOMAIN pak.export_table :
       pak.export_table[i].serial_offset
         >= TableEnd(p_raw, p_hdr.export_offset, p_hdr.p_ver,
                     p_hdr.export_count)

\* The position in the blob extract_script_from_export_blob takes the
\* Script array from: the first of the five slots after the properties
\* that reads as a Script array, or else the first position of the scan.
ScriptPosition(blob) ==
    LET pe == skip_tagged_properties(blob, pak, 4).v
        slots == {k \in 0..4 :
                    /\ pe + 4 * k < Len(blob)
                    /\ try_read_script_array(blob, pe + 4 * k).some}
        scan == {i \in 4..(Len(blob) - 5) :
                   LET sz == AsUsize(ReadI32(blob, i))
                   IN  /\ sz >= 4
                       /\ i + 4 + sz <= Len(blob)
                       /\ EndsNearEndOfScript(SubSeq(blob, i + 5, i + 4 + sz))}
    IN  IF slots # {} THEN pe + 4 * Least(slots) ELSE Least(scan)

\* The blob with the Script array at position q, old bytes long, replaced
\* by the length and the bytes of new.
Spliced(blob, q, old, new) ==
    Slice(blob, 0, q) \o WriteI32(Len(new)) \o new
    \o Slice(blob, q + 4 + Len(old), Len(blob))

\* Export i (1-based) is the target of a patch that is applied.
Patched(i) ==
    \E k \in DOMAIN p_patches :
       Applicable(p_patches[k]) /\ Target(p_patches[k]) = i

\* The replacement blob of a patched export as the specification words it.
Replacement(i) ==
    Spliced(OrigBlob(i), ScriptPosition(OrigBlob(i)),
            ScriptOf(p_raw, pak.export_table[i]).v, LastPatchFor(i))

\* C28: after a rebuild of a package whose export table lies before the
\* smallest serial_offset, every export of serial_size > 0 in the output's
\* table has at its (serial_offset, serial_size) in the output its
\* replacement blob if it was patched and its original blob otherwise, the
\* replacement being the original with the Script array replaced where the
\* Script was extracted.
C28_OutputReparses ==
    (/\ mode = "patch"
     /\ p_pc = "done"
     /\ DOMAIN p_repl # {}
     /\ TableBeforeData)
    => \A i \in DOMAIN OutTable :
          OutTable[i].serial_size > 0 =>
            /\ InBounds(p_out, OutTable[i])
            /\ Slice(p_out, OutTable[i].serial_offset,
                     OutTable[i].serial_offset + OutTable[i].serial_size)
                 = IF Patched(i) THEN Replacement(i) ELSE OrigBlob(i)


\* The bytes the output holds for export i under its own export table.
OutBlob(i) ==
    Slice(p_out, OutTable[i].serial_offset,
          OutTable[i].serial_offset + OutTable[i].serial_size)

\* The blob is the original blob of export i with one occurrence of its
\* Script array replaced by the length and the bytes of new.
SplicedFromOriginal(blob, i, new) ==
    LET old == ScriptOf(p_raw, pak.export_table[i]).v
    IN  \E q \in WindowPositions(OrigBlob(i), WriteI32(Len(old)) \o old) :
           blob = Spliced(OrigBlob(i), q, old, new)

\* C30: every applied patch goes to the first export whose full name
\* contains its path, case ignored; the blob the output holds for a
\* patched export is that export's original blob spliced with the
\* bytecode of the last patch of the list that selects it, whatever the
\* earlier patches for it brought, and every other export keeps its
\* original blob.
C30_LastPatchWins ==
    (/\ mode = "patch"
     /\ p_pc = "done"
     /\ DOMAIN p_repl # {}
     /\ TableBeforeData)
    => /\ DOMAIN p_repl = {i - 1 : i \in {j \in DOMAIN pak.export_table :
                                            Patched(j)}}
       /\ \A i \in DOMAIN pak.export_table :
             /\ Patched(i) =>
                  SplicedFromOriginal(OutBlob(i), i, LastPatchFor(i))
             /\ (~Patched(i) /\ pak.export_table[i].serial_size > 0) =>
                  OutBlob(i) = OrigBlob(i)

\* Two patches whose paths both select the first of two function exports,
\* the second path matching the second export as well: the output holds
\* the bytecode of the second patch for the first export and the second
\* export as it was.
C30_Witness ==
    /\ mode = "patch"
    /\ p_pc = "done"
    /\ Len(pak.export_table) = 2
    /\ p_patches = <<[data_name |-> <<"F", "a">>, data |-> <<EX_EndOfScript>>],
                     [data_name |-> <<"f">>,
                      data |-> <<37, 11, EX_EndOfScript>>]>>
    /\ DOMAIN p_repl = {0}
    /\ ScriptOf(p_out, OutTable[1]) = Some(<<37, 11, EX_EndOfScript>>)
    /\ ScriptOf(p_out, OutTable[2]) = Some(PScript)

(***************************************************************************)
(* The patch artifact (scriptpatcher.rs): LinkerPatchData written to the   *)
(* uncompressed stream, the stream cut into blocks of BLOCK_SIZE bytes,    *)
(* each block a zlib stream, and the way back.  Strings are sequences of   *)
(* Unicode scalar values, positions are 0-based offsets.                   *)
(***************************************************************************)

BLOCK_SIZE == 131072

\* write_bytes_array
write_bytes_array(data) == WriteI32(Len(data)) \o data

\* r.read_i32::<LittleEndian>() with the reader at pos.
ReadI32At(b, pos) ==
    IF pos + 4 > Len(b) THEN HErr("UnexpectedEof")
    ELSE [kind |-> "Ok", v |-> ReadI32(b, pos), pos |-> pos + 4]

\* read_ue3_string with the reader at pos.
ReadStringAt(b, pos) ==
    LET r == read_ue3_string(Slice(b, pos, Len(b)))
    IN  IF r.kind # "Ok" THEN r
        ELSE [kind |-> "Ok", v |-> r.v, pos |-> pos + r.consumed]

\* read_bytes_array with the reader at pos.
read_bytes_array(b, pos) ==
    LET n == ReadI32At(b, pos)
    IN  IF n.kind # "Ok" THEN n
        ELSE IF n.v <= 0 THEN [kind |-> "Ok", v |-> <<>>, pos |-> n.pos]
        ELSE IF n.pos + n.v > Len(b) THEN HErr("UnexpectedEof")
        ELSE [kind |-> "Ok", v |-> Slice(b, n.pos, n.pos + n.v),
              pos |-> n.pos + n.v]

PatchData_serialize(p) ==
    write_ue3_string(p.data_name) \o write_bytes_array(p.data)

PatchData_deserialize(b, pos) ==
    LET name == ReadStringAt(b, pos)
    IN  IF name.kind # "Ok" THEN name
        ELSE LET data == read_bytes_array(b, name.pos)
             IN  IF data.kind # "Ok" THEN data
                 ELSE [kind |-> "Ok", pos |-> data.pos,
                       v |-> [data_name |-> name.v, data |-> data.v]]

ScriptPatchData_serialize(p) ==
    write_ue3_string(p.struct_name) \o PatchData_serialize(p.patch_data)

ScriptPatchData_deserialize(b, pos) ==
    LET name == ReadStringAt(b, pos)
    IN  IF name.kind # "Ok" THEN name
        ELSE LET pd == PatchData_deserialize(b, name.pos)
             IN  IF pd.kind # "Ok" THEN pd
                 ELSE [kind |-> "Ok", pos |-> pd.pos,
                       v |-> [struct_name |-> name.v, patch_data |-> pd.v]]

\* The enum written with its path before its name.
EnumPatchData_serializePathFirst(e) ==
    write_ue3_string(e.enum_path_name) \o write_ue3_string(e.enum_name)
    \o WriteI32(Len(e.enum_values))
    \o Flatten([i \in 1..Len(e.enum_values) |->
                  write_ue3_string(e.enum_values[i])])

EnumPatchData_serialize(e) ==
    write_ue3_string(e.enum_name) \o write_ue3_string(e.enum_path_name)
    \o WriteI32(Len(e.enum_values))
    \o Flatten([i \in 1..Len(e.enum_values) |->
                  write_ue3_string(e.enum_values[i])])

RECURSIVE ReadItems(_, _, _, _, _)

\* A count read as i32 and cast to usize, then `for _ in 0..n` pushing
\* what the reader of `what` returns; Vec::with_capacity panics on the
\* count a negative i32 becomes.
ReadCounted(b, pos, what) ==
    LET n == ReadI32At(b, pos)
    IN  IF n.kind # "Ok" THEN n
        ELSE IF n.v < 0 THEN HPanic("capacity overflow")
        ELSE ReadItems(b, n.pos, n.v, what, <<>>)

EnumPatchData_deserialize(b, pos) ==
    LET name == ReadStringAt(b, pos)
    IN  IF name.kind # "Ok" THEN name
        ELSE LET path == ReadStringAt(b, name.pos)
             IN  IF path.kind # "Ok" THEN path
                 ELSE LET vals == ReadCounted(b, path.pos, "string")
                      IN  IF vals.kind # "Ok" THEN vals
                          ELSE [kind |-> "Ok", pos |-> vals.pos,
                                v |-> [enum_name |-> name.v,
                                       enum_path_name |-> path.v,
                                       enum_values |-> vals.v]]

\* A result used more than once is bound as a value -- the one element of
\* a one-element set -- and not as a LET, which is evaluated again at each
\* use.
ReadItems(b, pos, n, what, acc) ==
    IF n = 0 THEN [kind |-> "Ok", v |-> acc, pos |-> pos]
    ELSE CHOOSE res \in
           {IF r.kind # "Ok" THEN r
            ELSE ReadItems(b, r.pos, n - 1, what, Append(acc, r.v)) :
            r \in {CASE what = "string" -> ReadStringAt(b, pos)
                     [] what = "patch" -> PatchData_deserialize(b, pos)
                     [] what = "enum" -> EnumPatchData_deserialize(b, pos)
                     [] OTHER -> ScriptPatchData_deserialize(b, pos)}} : TRUE

LinkerPatchData_serialize(p) ==
    write_ue3_string(p.package_name)
    \o WriteI32(Len(p.names))
    \o Flatten([i \in 1..Len(p.names) |-> write_ue3_string(p.names[i])])
    \o WriteI32(0)
    \o WriteI32(0)
    \o WriteI32(Len(p.new_objects))
    \o Flatten([i \in 1..Len(p.new_objects) |->
                  PatchData_serialize(p.new_objects[i])])
    \o WriteI32(Len(p.modified_class_default_objects))
    \o Flatten([i \in 1..Len(p.modified_class_default_objects) |->
                  PatchData_serialize(p.modified_class_default_objects[i])])
    \o WriteI32(Len(p.modified_enums))
    \o Flatten([i \in 1..Len(p.modified_enums) |->
                  EnumPatchData_serialize(p.modified_enums[i])])
    \o WriteI32(Len(p.script_patches))
    \o Flatten([i \in 1..Len(p.script_patches) |->
                  ScriptPatchData_serialize(p.script_patches[i])])

\* The reads of deserialize from the k-th on, in their order: the package
\* name, the names, the two counts that must be 0, the new objects, the
\* class default objects, the enums, the script patches.
DeserializeOrder ==
    <<"name", "string", "zero", "zero", "patch", "patch", "enum", "script">>

RECURSIVE DeserializeFrom(_, _, _, _)
DeserializeFrom(b, pos, k, acc) ==
    IF k > Len(DeserializeOrder) THEN [kind |-> "Ok", v |-> acc]
    ELSE CHOOSE res \in
           {IF r.kind # "Ok" THEN r
            ELSE IF DeserializeOrder[k] = "zero" /\ r.v # 0
            THEN HErr("Unsupported")
            ELSE DeserializeFrom(b, r.pos, k + 1, Append(acc, r.v)) :
            r \in {CASE DeserializeOrder[k] = "name" -> ReadStringAt(b, pos)
                     [] DeserializeOrder[k] = "zero" -> ReadI32At(b, pos)
                     [] OTHER -> ReadCounted(b, pos, DeserializeOrder[k])}} :
           TRUE

LinkerPatchData_deserialize(b) ==
    CHOOSE res \in
      {IF r.kind # "Ok" THEN r
       ELSE [kind |-> "Ok",
             v |-> [package_name |-> r.v[1],
                    names |-> r.v[2],
                    new_objects |-> r.v[5],
                    modified_class_default_objects |-> r.v[6],
                    modified_enums |-> r.v[7],
                    script_patches |-> r.v[8]]] :
       r \in {DeserializeFrom(b, 0, 1, <<>>)}} : TRUE

(***************************************************************************)
(* zlib.  The encoder's output is a zlib stream of the chunk; the stream   *)
(* taken here is the one of stored deflate blocks: the header 78 9C,       *)
(* blocks of at most 65535 bytes (final flag, LEN, its complement, the     *)
(* bytes), and the Adler-32 of the chunk, high byte first.  The decoder    *)
(* reads such a stream and checks all of it.                               *)
(***************************************************************************)

\* Sum of s[i] over lo..hi, modulo 65521, the modulus of Adler-32.
RECURSIVE AdlerA(_, _, _)
AdlerA(s, lo, hi) ==
    IF lo > hi THEN 0
    ELSE IF lo = hi THEN s[lo]
    ELSE LET mid == (lo + hi) \div 2
         IN  (AdlerA(s, lo, mid) + AdlerA(s, mid + 1, hi)) % 65521

\* Sum of (n - i + 1) * s[i] over lo..hi, modulo 65521.
RECURSIVE AdlerB(_, _, _, _)
AdlerB(s, n, lo, hi) ==
    IF lo > hi THEN 0
    ELSE IF lo = hi THEN ((n - lo + 1) * s[lo]) % 65521
    ELSE LET mid == (lo + hi) \div 2
         IN  (AdlerB(s, n, lo, mid) + AdlerB(s, n, mid + 1, hi)) % 65521

Adler32(s) ==
    LET a == (1 + AdlerA(s, 1, Len(s))) % 65521
        b == (Len(s) + AdlerB(s, Len(s), 1, Len(s))) % 65521
    IN  <<b \div 256, b % 256, a \div 256, a % 256>>

RECURSIVE StoredBlocks(_, _)
StoredBlocks(s, from) ==
    LET left == Len(s) - from
    IN  IF left <= 65535
        THEN <<1>> \o WriteU16(left) \o WriteU16(65535 - left)
             \o Slice(s, from, Len(s))
        ELSE <<0>> \o WriteU16(65535) \o WriteU16(0)
             \o Slice(s, from, from + 65535)
             \o StoredBlocks(s, from + 65535)

\* ZlibEncoder::new(..).write_all(chunk), finish()
ZlibEncode(chunk) == <<120, 156>> \o StoredBlocks(chunk, 0) \o Adler32(chunk)

\* The stored blocks from position pos on, out being the bytes so far.
RECURSIVE Inflate(_, _, _)
Inflate(z, pos, out) ==
    IF pos + 5 > Len(z) THEN HErr("InvalidData")
    ELSE LET final == z[pos + 1]
             len == ReadU16(z, pos + 1)
             nlen == ReadU16(z, pos + 3)
         IN  IF final \notin {0, 1} \/ len + nlen # 65535
                \/ pos + 5 + len > Len(z)
             THEN HErr("InvalidData")
             ELSE IF final = 1
             THEN [kind |-> "Ok", pos |-> pos + 5 + len,
                   v |-> out \o Slice(z, pos + 5, pos + 5 + len)]
             ELSE Inflate(z, pos + 5 + len,
                          out \o Slice(z, pos + 5, pos + 5 + len))

\* ZlibDecoder::new(z).read_to_end(&mut blk)
ZlibDecode(z) ==
    IF Len(z) < 2 \/ z[1] % 16 # 8 \/ (z[1] * 256 + z[2]) % 31 # 0
    THEN HErr("InvalidData")
    ELSE CHOOSE res \in
           {IF r.kind # "Ok" THEN r
            ELSE IF r.pos + 4 > Len(z)
                    \/ Slice(z, r.pos, r.pos + 4) # Adler32(r.v)
            THEN HErr("InvalidData")
            ELSE [kind |-> "Ok", v |-> r.v] :
            r \in {Inflate(z, 2, <<>>)}} : TRUE

\* unc.chunks(BLOCK_SIZE)
chunks(s, size) ==
    [i \in 1..((Len(s) + size - 1) \div size) |->
       Slice(s, (i - 1) * size,
             IF i * size < Len(s) THEN i * size ELSE Len(s))]

RECURSIVE SumLen(_)
SumLen(ss) == IF ss = <<>> THEN 0 ELSE Len(Head(ss)) + SumLen(Tail(ss))

\* The header and the blocks of compress_patch for the stream unc and its
\* compressed blocks.
WrapBlocks(unc, blocks) ==
    LET bcount == Len(blocks)
        unc_sz(i) == IF i = bcount - 1 THEN Len(unc) - i * BLOCK_SIZE
                     ELSE BLOCK_SIZE
    IN  WriteU32(U32Of(Len(unc)))
        \o WriteU32(U32Of(SumLen(blocks)))
        \o Flatten([i \in 1..bcount |->
                      WriteU32(U32Of(Len(blocks[i])))
                      \o WriteU32(U32Of(unc_sz(i - 1)))])
        \o Flatten(blocks)

compress_patch(patch) ==
    CHOOSE out \in
      {WrapBlocks(unc, blocks) :
       unc \in {LinkerPatchData_serialize(patch)},
       blocks \in {[i \in 1..Len(parts) |-> ZlibEncode(parts[i])] :
                   parts \in {chunks(LinkerPatchData_serialize(patch),
                                     BLOCK_SIZE)}}} : TRUE

\* let bcount = (unc_total + BLOCK_SIZE - 1) / BLOCK_SIZE;
BlockCount(unc_total) == (unc_total + BLOCK_SIZE - 1) \div BLOCK_SIZE

\* The loop over the blocks of load_patch_bin, from block i (0-based) on.
RECURSIVE LoadBlocks(_, _, _, _, _)
LoadBlocks(data, i, bcount, pos, unc) ==
    IF i >= bcount THEN [kind |-> "Ok", v |-> unc]
    ELSE LET csz == U32Val(ReadU32(data, 8 + i * 8))
         IN  IF ~SliceOk(data, pos, pos + csz) THEN HPanic("slice index")
             ELSE CHOOSE res \in
                    {IF blk.kind # "Ok" THEN blk
                     ELSE LoadBlocks(data, i + 1, bcount, pos + csz,
                                     unc \o blk.v) :
                     blk \in {ZlibDecode(Slice(data, pos, pos + csz))}} :
                    TRUE

load_patch_bin(data) ==
    IF Len(data) < 8 THEN HErr("UnexpectedEof")
    ELSE LET unc_total == U32Val(ReadU32(data, 0))
             bcount == BlockCount(unc_total)
             hdrs_end == 8 + bcount * 8
         IN  IF Len(data) < hdrs_end THEN HErr("UnexpectedEof")
             ELSE CHOOSE res \in
                    {IF unc.kind # "Ok" THEN unc
                     ELSE LinkerPatchData_deserialize(unc.v) :
                     unc \in {LoadBlocks(data, 0, bcount, hdrs_end, <<>>)}} :
                    TRUE

\* compress_patch(&patch)
ArtifactCompress ==
    /\ mode = "artifact"
    /\ b_pc = "start"
    /\ b_bin' = compress_patch(b_patch)
    /\ b_pc' = "written"
    /\ UNCHANGED <<mode, hvars, pak, nvars, pvars, svars, dvars, rvars,
                   avars, evars, cvars, qvars, fvars, b_patch, b_res>>

\* load_patch_bin(&bin)
ArtifactLoad ==
    /\ mode = "artifact"
    /\ b_pc = "written"
    /\ b_res' = load_patch_bin(b_bin)
    /\ b_pc' = "loaded"
    /\ UNCHANGED <<mode, hvars, pak, nvars, pvars, svars, dvars, rvars,
                   avars, evars, cvars, qvars, fvars, b_patch, b_bin>>

(***************************************************************************)
(* Patches: every choice of a few values of each field, and patches of     *)
(* one script patch whose bytecode brings the stream to one byte less      *)
(* than, exactly and one byte more than 1..MaxBlocks blocks.               *)
(***************************************************************************)

MaxBlocks == 2

APatch1 == [data_name |-> <<111>>, data |-> <<>>]

APatch2 == [data_name |-> <<>>, data |-> <<0, 255, 83>>]

AEnum1 == [enum_name |-> <<69>>, enum_path_name |-> <<80, 46, 69>>,
           enum_values |-> <<>>]

AEnum2 == [enum_name |-> <<>>, enum_path_name |-> <<233>>,
           enum_values |-> <<<<65>>, <<>>, <<128512, 0>>>>]

AScript1 == [struct_name |-> <<>>,
             patch_data |-> [data_name |-> <<80, 46, 70>>,
                             data |-> <<11, EX_EndOfScript>>]]

AScript2 == [struct_name |-> <<83>>,
             patch_data |-> [data_name |-> <<>>, data |-> <<>>]]

SmallPatches ==
    [package_name : {<<>>, <<80>>, <<233, 0>>},
     names : {<<>>, <<<<72>>>>, <<<<>>, <<1046>>>>},
     new_objects : {<<>>, <<APatch1>>},
     modified_class_default_objects : {<<>>, <<APatch2, APatch1>>},
     modified_enums : {<<>>, <<AEnum1>>, <<AEnum2, AEnum1>>},
     script_patches : {<<>>, <<AScript1>>, <<AScript2, AScript1>>}]

\* A patch whose stream is n bytes long, n >= 44: 32 bytes of an empty
\* patch with one script patch, 12 of its empty names and its count.
LongPatch(n) ==
    [package_name |-> <<>>, names |-> <<>>, new_objects |-> <<>>,
     modified_class_default_objects |-> <<>>, modified_enums |-> <<>>,
     script_patches |->
       <<[struct_name |-> <<>>,
          patch_data |-> [data_name |-> <<>>,
                          data |-> [i \in 1..(n - 44) |-> (i * 7) % 256]]]>>]

LongPatches ==
    {LongPatch(k * BLOCK_SIZE + d) : k \in 1..MaxBlocks, d \in {-1, 0, 1}}

ArtifactInit ==
    /\ mode = "artifact"
    /\ b_patch \in SmallPatches \cup LongPatches
    /\ b_pc = "start"
    /\ b_bin = <<>>
    /\ b_res = [kind |-> "None"]
    /\ pak = NoPak
    /\ h_pc = "idle"
    /\ h_in = <<>>
    /\ h_res = [kind |-> "None"]
    /\ h_out = <<>>
    /\ NamesIdle
    /\ PatchIdle
    /\ StringsIdle
    /\ DecompIdle
    /\ PropsIdle
    /\ DisasmIdle
    /\ ExtractIdle
    /\ CompileIdle
    /\ LoadsIdle
    /\ RenderIdle

ArtifactNext == ArtifactCompress \/ ArtifactLoad

SpecArtifact == ArtifactInit /\ [][ArtifactNext]_vars

\* The length of the stream of a patch as the format lays it out.
StringSize(s) == IF s = <<>> THEN 4 ELSE 4 + Len(as_bytes(s)) + 1

RECURSIVE SumOver(_, _, _)
SumOver(Size(_), xs, k) ==
    IF k > Len(xs) THEN 0 ELSE Size(xs[k]) + SumOver(Size, xs, k + 1)

PatchDataSize(p) == StringSize(p.data_name) + 4 + Len(p.data)

EnumSize(e) ==
    StringSize(e.enum_name) + StringSize(e.enum_path_name) + 4
    + SumOver(StringSize, e.enum_values, 1)

ScriptPatchSize(p) == StringSize(p.struct_name) + PatchDataSize(p.patch_data)

StreamLength(p) ==
    StringSize(p.package_name)
    + 4 + SumOver(StringSize, p.names, 1)
    + 4 + 4
    + 4 + SumOver(PatchDataSize, p.new_objects, 1)
    + 4 + SumOver(PatchDataSize, p.modified_class_default_objects, 1)
    + 4 + SumOver(EnumSize, p.modified_enums, 1)
    + 4 + SumOver(ScriptPatchSize, p.script_patches, 1)

\* Block i (1-based) of the wrapper's table: compressed and uncompressed
\* length as declared.
DeclaredBlock(i) ==
    [csize |-> U32Val(ReadU32(b_bin, 8 * i)),
     usize |-> U32Val(ReadU32(b_bin, 8 * i + 4))]

RECURSIVE DeclaredSum(_, _)
DeclaredSum(field, n) ==
    IF n = 0 THEN 0 ELSE DeclaredBlock(n)[field] + DeclaredSum(field, n - 1)

\* The wrapper of a stream of len bytes: the declared total, the blocks
\* ceil(len / 0x20000) in number, each declared 0x20000 bytes long but the
\* last, the declared lengths summing to the totals, the compressed blocks
\* the rest of the file.
WrapperOf(len) ==
    LET n == (len + 131071) \div 131072
    IN  /\ Len(b_bin) >= 8 + 8 * n
        /\ U32Val(ReadU32(b_bin, 0)) = len
        /\ \A i \in 1..n :
              DeclaredBlock(i).usize =
                 IF i < n THEN 131072 ELSE len - 131072 * (n - 1)
        /\ DeclaredSum("usize", n) = len
        /\ DeclaredSum("csize", n) = U32Val(ReadU32(b_bin, 4))
        /\ Len(b_bin) = 8 + 8 * n + DeclaredSum("csize", n)

\* C29: load_patch_bin(compress_patch(p)) succeeds and returns p, field by
\* field and in order, streams longer than one block and of a whole number
\* of blocks included, and the wrapper has the blocks the format says.
C29_ArtifactRoundTrip ==
    /\ (mode = "artifact" /\ b_pc \in {"written", "loaded"}) =>
          WrapperOf(StreamLength(b_patch))
    /\ (mode = "artifact" /\ b_pc = "loaded") =>
          /\ b_res.kind = "Ok"
          /\ b_res.v.package_name = b_patch.package_name
          /\ b_res.v.names = b_patch.names
          /\ b_res.v.new_objects = b_patch.new_objects
          /\ b_res.v.modified_class_default_objects
               = b_patch.modified_class_default_objects
          /\ b_res.v.modified_enums = b_patch.modified_enums
          /\ b_res.v.script_patches = b_patch.script_patches

\* A patch with every field filled has been written and read back.
C29_Witness ==
    /\ mode = "artifact"
    /\ b_pc = "loaded"
    /\ b_patch = [package_name |-> <<233, 0>>,
                  names |-> <<<<>>, <<1046>>>>,
                  new_objects |-> <<APatch1>>,
                  modified_class_default_objects |-> <<APatch2, APatch1>>,
                  modified_enums |-> <<AEnum2, AEnum1>>,
                  script_patches |-> <<AScript2, AScript1>>]
    /\ b_res = [kind |-> "Ok", v |-> b_patch]
    /\ DeclaredBlock(1).usize = StreamLength(b_patch)

=============================================================================
